---- MODULE Spec2Model ----
(***************************************************************************)
(* Team task-management backend (routes/auth.js, routes/tasks.js, db.js).  *)
(* The relational database is the only shared state; every route handler   *)
(* is a sequence of SQL statements against it.  Handlers that are checked  *)
(* for their sequential behaviour are one action each (the whole handler,  *)
(* its transaction included); the subtask claim handler, the task         *)
(* creation handler and the progress handler are also modelled statement   *)
(* by statement, one action per awaited query, so that requests interleave *)
(* as they do on the event loop.                                           *)
(***************************************************************************)
EXTENDS Integers, Sequences, FiniteSets, TLC

VARIABLES
    users,          \* users table: id -> row (DOMAIN = ids of the existing rows)
    teams,          \* teams table: team_code -> row (team_code is UNIQUE)
    tasks,          \* tasks table: id -> row
    subtasks,       \* subtasks table: id -> row
    nextUserId,     \* users.id SERIAL sequence (never rolled back, never reused)
    nextTaskId,     \* tasks.id SERIAL sequence
    nextSubtaskId,  \* subtasks.id SERIAL sequence
    lock,           \* row locks on subtasks: id -> holding request (0: unlocked)
    req,            \* in-flight takeSubtask / updateProgress requests: slot -> handler state
    creating,       \* the in-flight createTask request and its transaction's writes
    last            \* the response just sent: operation, HTTP status, error text

vars == <<users, teams, tasks, subtasks, nextUserId, nextTaskId, nextSubtaskId,
          lock, req, creating, last>>

(***************************************************************************)
(* Bounds of the model.                                                    *)
(***************************************************************************)
MaxUsers == 2       \* values the users.id sequence may hand out
NumProcs == 2       \* concurrent takeSubtask requests
MaxSubtasks == 1    \* subtask rows of the task fixture
MaxTasks == 1       \* values the tasks.id sequence may hand out to createTask

UserIds == 1..MaxUsers
Emails == {"a@x.com", "b@x.com", "c@x.com"}
TeamCodes == {"AB12CD", "ZZ99ZZ"}
Procs == 1..NumProcs
SubtaskIds == 1..MaxSubtasks

\* A request field that is absent (undefined) is 0 for an id, "" for a string.
NoId == 0
NoCode == ""

(***************************************************************************)
(* Rows.                                                                   *)
(***************************************************************************)
\* bcrypt.hash(password, 10) and bcrypt.compare(password, hash): the hash matches
\* the password it was made from and no other.
bcryptHash(password) == <<"bcrypt", password>>

bcryptCompare(password, hash) == hash = bcryptHash(password)

\* The password every registration request of the model carries.
RegisteredPassword == "pw"

\* Passwords a login request may carry: absent, the registered one, another one.
Passwords == {NoCode, RegisteredPassword, "guess"}

\* db.js: users(id, email UNIQUE, password, role, team_code, status, approved_by,
\* rejected_by)
UserRow(email, role, teamCode, status) ==
    [email |-> email, password |-> bcryptHash(RegisteredPassword), role |-> role,
     team_code |-> teamCode, status |-> status,
     approved_by |-> NoId, rejected_by |-> NoId]

\* db.js: teams(team_code UNIQUE, leader_id REFERENCES users)
TeamRow(leaderId) == [leader_id |-> leaderId]

\* db.js: tasks(id, team_code, created_by REFERENCES users)
TaskRow(teamCode, createdBy) ==
    [team_code |-> teamCode, created_by |-> createdBy, title |-> "title"]

\* db.js: subtasks(id, task_id REFERENCES tasks, assigned_to REFERENCES users,
\* status, progress, deadline); no INSERT names deadline, so a row starts with
\* deadline NULL.
SubtaskRow(taskId, assignedTo, status, progress) ==
    [task_id |-> taskId, assigned_to |-> assignedTo, status |-> status,
     progress |-> progress, deadline |-> NoCode]

\* The tables as one value: what a transaction starts from and what it leaves.
Db == [users |-> users, teams |-> teams, tasks |-> tasks, subtasks |-> subtasks,
       nextUserId |-> nextUserId, nextTaskId |-> nextTaskId,
       nextSubtaskId |-> nextSubtaskId]

\* What a handler does: the tables it leaves and the response it sends.
Reply(db, code, error) == [db |-> db, code |-> code, error |-> error]

\* res.status(code).json({ error }) / res.json(...) as recorded in last.
Response(op, code, error) == [op |-> op, code |-> code, error |-> error]

(***************************************************************************)
(* Statements and constraints of the schema.                               *)
(***************************************************************************)
\* SELECT * FROM users WHERE email = $1  (rows.length > 0)
EmailExistsNever(U, email) == FALSE

EmailExists(U, email) == \E i \in DOMAIN U : U[i].email = email

\* SELECT * FROM teams WHERE team_code = $1  (rows.length > 0)
TeamExistsAlways(T, teamCode) == TRUE

TeamExists(T, teamCode) == teamCode \in DOMAIN T

\* INSERT INTO users ...: the row under the id the sequence handed out.
InsertUser(U, id, row) == U @@ (id :> row)

\* DELETE FROM users WHERE id = $1
DeleteUser(U, id) == [i \in DOMAIN U \ {id} |-> U[i]]

UserReferencedNever(U, T, K, S, id) == FALSE

\* Foreign keys onto users(id) held by rows other than the user's own row:
\* users.approved_by, users.rejected_by, teams.leader_id, tasks.created_by,
\* subtasks.assigned_to.  A DELETE of a referenced user is refused.
UserReferenced(U, T, K, S, id) ==
    \/ \E i \in DOMAIN U \ {id} : U[i].approved_by = id \/ U[i].rejected_by = id
    \/ \E c \in DOMAIN T : T[c].leader_id = id
    \/ \E t \in DOMAIN K : K[t].created_by = id
    \/ \E s \in DOMAIN S : S[s].assigned_to = id

\* ROLLBACK: the transaction's writes are discarded, the tables are as they were
\* at BEGIN (pre), except that a sequence value handed out is not given back;
\* post is the transaction's own view.
RollbackKeepsWrites(pre, post) == post

Rollback(pre, post) ==
    [pre EXCEPT !.nextUserId = post.nextUserId, !.nextTaskId = post.nextTaskId,
                !.nextSubtaskId = post.nextSubtaskId]

\* COMMIT: the transaction's view becomes the tables.
Commit(pre, post) == post

\* generateTeamCode(): Math.random().toString(36).substring(2, 8).toUpperCase();
\* any code may come out, one already in use included.
generateTeamCode == TeamCodes

(***************************************************************************)
(* Initial state: the tables as initDb() creates them, empty.              *)
(***************************************************************************)
NoRequest == [pc |-> "idle", subtaskId |-> NoId, userId |-> NoId, avail |-> FALSE,
              found |-> FALSE, status |-> "", code |-> 0, progress |-> NoCode,
              row |-> <<>>, email |-> NoCode, teamCode |-> NoCode, role |-> NoCode,
              conn |-> 0, releases |-> 0, txn |-> FALSE, responses |-> 0,
              op |-> NoCode, taskId |-> NoId, targets |-> {}, hit |-> {}, desc |-> FALSE]

\* The connection of a request that runs a transaction: r.conn counts the
\* connections the request holds, r.releases its calls of client.release(),
\* r.txn says that the connection has a transaction open.
\* res.status(...).json(...) or res.json(...): one more response is sent.
Send(r) == [r EXCEPT !.responses = @ + 1]

\* const client = await pool.connect()
Connect(r) == [r EXCEPT !.conn = @ + 1]

\* finally { client.release() }
ReleaseSkipped(r) == r

Release(r) == [r EXCEPT !.conn = @ - 1, !.releases = @ + 1]

\* await client.query('BEGIN')
BeginTxn(r) == [r EXCEPT !.txn = TRUE]

\* await client.query('COMMIT') or await client.query('ROLLBACK')
EndTxn(r) == [r EXCEPT !.txn = FALSE]

\* No createTask request in flight.
NoCreate == [pc |-> "idle", teamCode |-> NoCode, createdBy |-> NoId,
             assignSpecific |-> FALSE, subs |-> <<>>, taskId |-> NoId,
             task |-> <<>>, rows |-> <<>>, inserted |-> 0, code |-> 0,
             conn |-> 0, releases |-> 0, txn |-> FALSE, responses |-> 0]

NoResponse == Response("", 0, "")

EmptyTable == [i \in {} |-> 0]

Init ==
    /\ users = EmptyTable
    /\ teams = EmptyTable
    /\ tasks = EmptyTable
    /\ subtasks = EmptyTable
    /\ nextUserId = 1
    /\ nextTaskId = 1
    /\ nextSubtaskId = 1
    /\ lock = [s \in SubtaskIds |-> 0]
    /\ req = [p \in Procs |-> NoRequest]
    /\ creating = NoCreate
    /\ last = NoResponse

\* A request served start to end: the tables the handler leaves, its response.
Serve(op, r) ==
    /\ users' = r.db.users
    /\ teams' = r.db.teams
    /\ tasks' = r.db.tasks
    /\ subtasks' = r.db.subtasks
    /\ nextUserId' = r.db.nextUserId
    /\ nextTaskId' = r.db.nextTaskId
    /\ nextSubtaskId' = r.db.nextSubtaskId
    /\ last' = Response(op, r.code, r.error)
    /\ UNCHANGED <<lock, req, creating>>

(***************************************************************************)
(* routes/auth.js                                                          *)
(***************************************************************************)
\* team_code VARCHAR(10) UNIQUE NOT NULL: the INSERT INTO teams goes through only
\* for a code no team has.
UniqueTeamCodeUnchecked(T, teamCode) == TRUE

UniqueTeamCode(T, teamCode) == teamCode \notin DOMAIN T

\* The transaction of POST /register-leader: INSERT user, INSERT team, COMMIT;
\* a failing statement (the UNIQUE constraints on users.email and
\* teams.team_code) throws, and the catch block rolls back and answers 500.
registerLeaderTxn(email, teamCode) ==
    LET pre == Db
        id == nextUserId
        userOk == ~ \E i \in DOMAIN users : users[i].email = email
        afterSeq == [pre EXCEPT !.nextUserId = id + 1]
        afterUser == [afterSeq EXCEPT !.users =
                         InsertUser(users, id, UserRow(email, "leader", teamCode, "approved"))]
        teamOk == UniqueTeamCode(teams, teamCode)
        afterTeam == [afterUser EXCEPT !.teams = teams @@ (teamCode :> TeamRow(id))]
    IN  IF ~ userOk THEN Reply(Rollback(pre, afterSeq), 500, "Internal server error")
        ELSE IF ~ teamOk THEN Reply(Rollback(pre, afterUser), 500, "Internal server error")
        ELSE Reply(Commit(pre, afterTeam), 200, "")

\* POST /register-leader
registerLeader(email, teamCode) ==
    IF EmailExists(users, email)
    THEN Reply(Db, 400, "User already exists")
    ELSE registerLeaderTxn(email, teamCode)

\* POST /register-member
registerMember(email, teamCode) ==
    IF ~ TeamExists(teams, teamCode)
    THEN Reply(Db, 400, "Invalid team code")
    ELSE IF EmailExists(users, email)
    THEN Reply(Db, 400, "User already exists")
    ELSE IF \E i \in DOMAIN users : users[i].email = email
    THEN \* the INSERT violates users.email UNIQUE and throws
         Reply([Db EXCEPT !.nextUserId = nextUserId + 1], 500, "Internal server error")
    ELSE Reply([Db EXCEPT !.users = InsertUser(users, nextUserId,
                                       UserRow(email, "member", teamCode, "pending")),
                          !.nextUserId = nextUserId + 1], 200, "")

\* SELECT * FROM users WHERE email = $1 AND team_code = $2: the ids of the rows
\* (users.email is UNIQUE: at most one).
FindUserByEmail(U, email, teamCode) == {i \in DOMAIN U : U[i].email = email}

FindUser(U, email, teamCode) ==
    {i \in DOMAIN U : U[i].email = email /\ U[i].team_code = teamCode}

\* jwt.sign({ userId, email, role }, JWT_SECRET, { expiresIn: '24h' })
NoToken == [userId |-> NoId, email |-> "", role |-> ""]

jwtSign(userId, row) == [userId |-> userId, email |-> row.email, role |-> row.role]

\* The response of /login: no table is written.
LoginReply(code, error, token) ==
    [db |-> Db, code |-> code, error |-> error, token |-> token]

\* if (user.role === 'member' && user.status !== 'approved'): the 403 of a
\* pending and of a rejected member; any other status falls through to the token.
StatusNeverRefused(row) == ""

StatusRefusal(row) ==
    IF row.role = "member" /\ row.status /= "approved"
    THEN IF row.status = "pending"
         THEN "Your membership is pending approval from the team leader"
         ELSE IF row.status = "rejected"
         THEN "Your membership request was rejected. Please contact your team leader."
         ELSE ""
    ELSE ""

\* POST /login
login(email, password, teamCode) ==
    LET found == FindUser(users, email, teamCode)
    IN  IF found = {}
        THEN LoginReply(401, "Invalid credentials", NoToken)
        ELSE LET id == CHOOSE i \in found : TRUE
                 user == users[id]
             IN  IF password = NoCode
                 THEN \* bcrypt.compare(undefined, hash) throws: the catch block
                      LoginReply(500, "Internal server error", NoToken)
                 ELSE IF ~ bcryptCompare(password, user.password)
                 THEN LoginReply(401, "Invalid credentials", NoToken)
                 ELSE IF StatusRefusal(user) /= ""
                 THEN LoginReply(403, StatusRefusal(user), NoToken)
                 ELSE LoginReply(200, "", jwtSign(id, user))

\* The response of /check-member-status: no table is written.
StatusReply(code, canLogin, status, message) ==
    [db |-> Db, code |-> code, error |-> message, canLogin |-> canLogin,
     status |-> status]

\* The answer of /check-member-status for the row found.
canLoginAnyStatus(row) == TRUE

canLogin(row) ==
    IF row.role = "leader" THEN TRUE
    ELSE IF row.role = "member" THEN row.status = "approved"
    ELSE FALSE

\* POST /check-member-status
checkMemberStatus(email, teamCode) ==
    IF email = NoCode \/ teamCode = NoCode
    THEN StatusReply(400, FALSE, "", "Email and team code are required")
    ELSE LET found == FindUser(users, email, teamCode)
         IN  IF found = {}
             THEN StatusReply(200, FALSE, "", "No account found with these credentials")
             ELSE LET user == users[CHOOSE i \in found : TRUE]
                  IN  IF user.role = "leader"
                      THEN StatusReply(200, canLogin(user), "approved", "")
                      ELSE IF user.role = "member" /\ user.status = "pending"
                      THEN StatusReply(200, canLogin(user), "pending",
                                       "Membership pending approval")
                      ELSE IF user.role = "member" /\ user.status = "rejected"
                      THEN StatusReply(200, canLogin(user), "rejected",
                                       "Membership request rejected")
                      ELSE IF user.role = "member" /\ user.status = "approved"
                      THEN StatusReply(200, canLogin(user), "approved", "")
                      ELSE StatusReply(200, FALSE, "", "Unable to login")

\* WHERE id = $3 AND team_code = $4 AND role = 'member'
\* (the WHERE clause of /approve-member and /reject-member)
MemberWhereAnyRole(U, userId, teamCode) ==
    /\ userId \in DOMAIN U
    /\ U[userId].team_code = teamCode

MemberWhere(U, userId, teamCode) ==
    /\ userId \in DOMAIN U
    /\ U[userId].team_code = teamCode
    /\ U[userId].role = "member"

\* WHERE id = $3 AND team_code = $4 AND status = 'rejected' AND role = 'member'
\* (the WHERE clause of /approve-rejected-member)
RejectedMemberWhere(U, userId, teamCode) ==
    /\ userId \in DOMAIN U
    /\ U[userId].team_code = teamCode
    /\ U[userId].status = "rejected"
    /\ U[userId].role = "member"

\* POST /approve-member
approveMember(userId, teamCode, approvedBy) ==
    IF userId = NoId \/ teamCode = NoCode \/ approvedBy = NoId
    THEN Reply(Db, 400, "Missing required fields")
    ELSE IF ~ MemberWhere(users, userId, teamCode)
    THEN \* zero rows: ROLLBACK
         Reply(Db, 404, "User not found or already processed")
    ELSE IF approvedBy \notin DOMAIN users
    THEN \* approved_by REFERENCES users(id): the UPDATE throws, ROLLBACK
         Reply(Db, 500, "Internal server error")
    ELSE Reply([Db EXCEPT !.users[userId].status = "approved",
                          !.users[userId].approved_by = approvedBy], 200, "")

\* POST /reject-member
rejectMember(userId, teamCode, rejectedBy) ==
    IF userId = NoId \/ teamCode = NoCode \/ rejectedBy = NoId
    THEN Reply(Db, 400, "Missing required fields")
    ELSE IF ~ MemberWhere(users, userId, teamCode)
    THEN Reply(Db, 404, "User not found or already processed")
    ELSE IF rejectedBy \notin DOMAIN users
    THEN \* rejected_by REFERENCES users(id)
         Reply(Db, 500, "Internal server error")
    ELSE Reply([Db EXCEPT !.users[userId].status = "rejected",
                          !.users[userId].rejected_by = rejectedBy], 200, "")

\* POST /approve-rejected-member
approveRejectedMember(userId, teamCode, approvedBy) ==
    IF userId = NoId \/ teamCode = NoCode \/ approvedBy = NoId
    THEN Reply(Db, 400, "Missing required fields")
    ELSE IF ~ RejectedMemberWhere(users, userId, teamCode)
    THEN Reply(Db, 404, "Rejected member not found or already processed")
    ELSE IF approvedBy \notin DOMAIN users
    THEN Reply(Db, 500, "Internal server error")
    ELSE Reply([Db EXCEPT !.users[userId].status = "approved",
                          !.users[userId].approved_by = approvedBy,
                          !.users[userId].rejected_by = NoId], 200, "")

\* DELETE FROM users WHERE id = $1 AND status = 'rejected' AND role = 'member'
DeleteRejectedWhereAnyStatus(U, userId) ==
    /\ userId \in DOMAIN U
    /\ U[userId].role = "member"

DeleteRejectedWhere(U, userId) ==
    /\ userId \in DOMAIN U
    /\ U[userId].status = "rejected"
    /\ U[userId].role = "member"

\* DELETE /delete-rejected-member/:userId
deleteRejectedMember(userId) ==
    IF ~ DeleteRejectedWhere(users, userId)
    THEN Reply(Db, 404, "Rejected member not found")
    ELSE IF UserReferenced(users, teams, tasks, subtasks, userId)
    THEN \* a foreign key still points at the row: the DELETE throws
         Reply(Db, 500, "Internal server error")
    ELSE Reply([Db EXCEPT !.users = DeleteUser(users, userId)], 200, "")

\* UPDATE subtasks SET assigned_to = NULL, status = 'available' WHERE assigned_to = $2
ReleaseKeepsStatus(S, memberId) ==
    [s \in DOMAIN S |->
        IF S[s].assigned_to = memberId
        THEN [S[s] EXCEPT !.assigned_to = NoId]
        ELSE S[s]]

ReleaseSubtasks(S, memberId) ==
    [s \in DOMAIN S |->
        IF S[s].assigned_to = memberId
        THEN [S[s] EXCEPT !.assigned_to = NoId, !.status = "available"]
        ELSE S[s]]

\* The transaction of DELETE /team/:teamCode/member/:memberId.
deleteTeamMemberTxn(memberId) ==
    LET pre == Db
        afterRelease == [pre EXCEPT !.subtasks = ReleaseSubtasks(subtasks, memberId)]
        deleteOk == ~ UserReferenced(users, teams, tasks, afterRelease.subtasks, memberId)
        afterDelete == [afterRelease EXCEPT !.users = DeleteUser(users, memberId)]
    IN  IF deleteOk THEN Reply(Commit(pre, afterDelete), 200, "")
        ELSE Reply(Rollback(pre, afterRelease), 500, "Internal server error")

\* SELECT id, role FROM users WHERE id = $1 AND team_code = $2 AND role = 'leader'
LeaderWhereAnyTeam(U, leaderId, teamCode) ==
    /\ leaderId \in DOMAIN U
    /\ U[leaderId].role = "leader"

LeaderWhere(U, leaderId, teamCode) ==
    /\ leaderId \in DOMAIN U
    /\ U[leaderId].team_code = teamCode
    /\ U[leaderId].role = "leader"

\* DELETE /team/:teamCode/member/:memberId
deleteTeamMember(teamCode, memberId, leaderId) ==
    IF leaderId = NoId
    THEN Reply(Db, 400, "Leader ID is required")
    ELSE IF ~ LeaderWhere(users, leaderId, teamCode)
    THEN Reply(Db, 403, "Only team leader can delete members")
    ELSE IF memberId = leaderId
    THEN Reply(Db, 400, "Cannot delete yourself")
    ELSE IF ~ MemberWhere(users, memberId, teamCode)
    THEN Reply(Db, 404, "Member not found in your team")
    ELSE deleteTeamMemberTxn(memberId)

(***************************************************************************)
(* Identity and membership: the handlers of routes/auth.js, one request    *)
(* at a time, from the empty database.                                     *)
(***************************************************************************)
IdArgs == {NoId} \cup UserIds
CodeArgs == {NoCode} \cup TeamCodes

RegisterLeader(email, teamCode) ==
    /\ nextUserId <= MaxUsers
    /\ Serve("registerLeader", registerLeader(email, teamCode))

RegisterMember(email, teamCode) ==
    /\ nextUserId <= MaxUsers
    /\ Serve("registerMember", registerMember(email, teamCode))

ApproveMember(userId, teamCode, approvedBy) ==
    /\ TRUE
    /\ Serve("approveMember", approveMember(userId, teamCode, approvedBy))

RejectMember(userId, teamCode, rejectedBy) ==
    /\ TRUE
    /\ Serve("rejectMember", rejectMember(userId, teamCode, rejectedBy))

ApproveRejectedMember(userId, teamCode, approvedBy) ==
    /\ TRUE
    /\ Serve("reApprove", approveRejectedMember(userId, teamCode, approvedBy))

DeleteRejectedMember(userId) ==
    /\ TRUE
    /\ Serve("deleteRejectedMember", deleteRejectedMember(userId))

DeleteTeamMember(teamCode, memberId, leaderId) ==
    /\ TRUE
    /\ Serve("deleteTeamMember", deleteTeamMember(teamCode, memberId, leaderId))

Login(email, password, teamCode) ==
    /\ TRUE
    /\ Serve("login", login(email, password, teamCode))

CheckMemberStatus(email, teamCode) ==
    /\ TRUE
    /\ Serve("checkMemberStatus", checkMemberStatus(email, teamCode))

NextAuth ==
    \/ \E e \in Emails, c \in generateTeamCode : RegisterLeader(e, c)
    \/ \E e \in Emails, c \in TeamCodes : RegisterMember(e, c)
    \/ \E u \in IdArgs, c \in CodeArgs, a \in IdArgs : ApproveMember(u, c, a)
    \/ \E u \in IdArgs, c \in CodeArgs, a \in IdArgs : RejectMember(u, c, a)
    \/ \E u \in IdArgs, c \in CodeArgs, a \in IdArgs : ApproveRejectedMember(u, c, a)
    \/ \E u \in UserIds : DeleteRejectedMember(u)
    \/ \E c \in TeamCodes, m \in UserIds, l \in IdArgs : DeleteTeamMember(c, m, l)

SpecAuth == Init /\ [][NextAuth]_vars

(***************************************************************************)
(* Signing in: registration, the leader's decisions on a membership        *)
(* (requests carrying all their fields), and the two read-only handlers    *)
(* /login and /check-member-status, from the empty database.               *)
(***************************************************************************)
NextLogin ==
    \/ \E e \in Emails, c \in generateTeamCode : RegisterLeader(e, c)
    \/ \E e \in Emails, c \in TeamCodes : RegisterMember(e, c)
    \/ \E u \in UserIds, c \in TeamCodes, a \in UserIds : ApproveMember(u, c, a)
    \/ \E u \in UserIds, c \in TeamCodes, a \in UserIds : RejectMember(u, c, a)
    \/ \E u \in UserIds, c \in TeamCodes, a \in UserIds : ApproveRejectedMember(u, c, a)
    \/ \E e \in Emails, w \in Passwords, c \in CodeArgs : Login(e, w, c)
    \/ \E e \in {NoCode} \cup Emails, c \in CodeArgs : CheckMemberStatus(e, c)

SpecLogin == Init /\ [][NextLogin]_vars

(***************************************************************************)
(* routes/tasks.js: PUT /subtask/:subtaskId/take, statement by statement.  *)
(* A request slot holds one request; pc names the query the handler is     *)
(* about to await.  The code between two awaits runs without interruption  *)
(* on the event loop, so it belongs to the step of the query before it.    *)
(***************************************************************************)
\* SELECT ... FOR UPDATE waits while another transaction holds the row lock.
RowLockIgnored(s) == TRUE

RowLockFree(s) == IF s \in DOMAIN lock THEN lock[s] = 0 ELSE TRUE

\* COMMIT or ROLLBACK frees the row locks of the transaction of request p.
UnlockNothing(L, p) == L

Unlock(L, p) == [s \in DOMAIN L |-> IF L[s] = p THEN 0 ELSE L[s]]

\* Another request's transaction has run DELETE FROM users WHERE id = $1 for this
\* user and not yet committed: a statement that references the user (the foreign
\* key check locks the users row FOR KEY SHARE) waits for it.
UserDeletePending(p, id) ==
    \E q \in Procs \ {p} :
        req[q].op = "deleteTeamMember" /\ req[q].pc = "d_commit" /\ req[q].userId = id

\* Another transaction has written a row that references this user and not yet
\* committed: it holds the users row FOR KEY SHARE, and DELETE FROM users waits.
UserKeyShared(p, id) ==
    \/ \E q \in Procs \ {p} :
          req[q].op = "takeSubtask" /\ req[q].pc = "commit" /\ req[q].userId = id
    \/ /\ creating.pc \in {"subtask", "commit"}
       /\ \/ creating.createdBy = id
          \/ \E k \in 1..Len(creating.rows) : creating.rows[k].row.assigned_to = id

\* if (subtask.status !== 'available') ... 400
TakeAllowedUnlessCompleted(status) == status /= "completed"

TakeAllowed(status) == status = "available"

\* UPDATE subtasks SET assigned_to = $1, status = 'taken', progress = 'in_progress'
TakeUpdateKeepsProgress(row, userId) ==
    [row EXCEPT !.assigned_to = userId, !.status = "taken"]

TakeUpdate(row, userId) ==
    [row EXCEPT !.assigned_to = userId, !.status = "taken", !.progress = "in_progress"]

\* The handler's state after a step that does not end the request.
Await(p, pc) ==
    /\ req' = [req EXCEPT ![p].pc = pc]
    /\ last' = Response("takeSubtask", 0, "")

\* res.status(code).json(...): the request is answered from handler state r, and
\* the finally block releases the connection.
RespondFrom(p, r, code, error) ==
    /\ req' = [req EXCEPT ![p] = Release(Send([r EXCEPT !.pc = "done", !.code = code]))]
    /\ last' = Response("takeSubtask", code, error)

Respond(p, code, error) == RespondFrom(p, req[p], code, error)

\* The request arrives: if (!userId) return 400; pool.connect()
TakeArrive(p, subtaskId, userId) ==
    /\ req[p].pc = "idle"
    /\ LET r == [req[p] EXCEPT !.op = "takeSubtask",
                               !.subtaskId = subtaskId, !.userId = userId,
                               !.avail = /\ subtaskId \in DOMAIN subtasks
                                         /\ subtasks[subtaskId].status = "available"]
       IN  IF userId = NoId
           THEN /\ req' = [req EXCEPT ![p] = Send([r EXCEPT !.pc = "done", !.code = 400])]
                /\ last' = Response("takeSubtask", 400, "User ID is required")
           ELSE /\ req' = [req EXCEPT ![p] = Connect([r EXCEPT !.pc = "begin"])]
                /\ last' = Response("takeSubtask", 0, "")
    /\ UNCHANGED <<users, teams, tasks, subtasks, nextUserId, nextTaskId, nextSubtaskId,
                   lock, creating>>

\* await client.query('BEGIN')
TakeBegin(p) ==
    /\ req[p].pc = "begin"
    /\ req' = [req EXCEPT ![p] = BeginTxn([@ EXCEPT !.pc = "select"])]
    /\ last' = Response("takeSubtask", 0, "")
    /\ UNCHANGED <<users, teams, tasks, subtasks, nextUserId, nextTaskId, nextSubtaskId,
                   lock, creating>>

\* await client.query('SELECT * FROM subtasks WHERE id = $1 FOR UPDATE'), then the
\* two checks on its result, up to the next awaited query (ROLLBACK or UPDATE).
TakeSelect(p) ==
    /\ req[p].pc = "select"
    /\ RowLockFree(req[p].subtaskId)
    /\ LET s == req[p].subtaskId
       IN  IF s \notin DOMAIN subtasks
           THEN /\ req' = [req EXCEPT ![p].pc = "rollback", ![p].code = 404]
                /\ UNCHANGED lock
           ELSE /\ lock' = [lock EXCEPT ![s] = p]
                /\ req' = [req EXCEPT ![p].found = TRUE,
                                      ![p].status = subtasks[s].status,
                                      ![p].pc = IF TakeAllowed(subtasks[s].status)
                                                THEN "update" ELSE "rollback",
                                      ![p].code = IF TakeAllowed(subtasks[s].status)
                                                  THEN 0 ELSE 400]
    /\ last' = Response("takeSubtask", 0, "")
    /\ UNCHANGED <<users, teams, tasks, subtasks, nextUserId, nextTaskId, nextSubtaskId,
                   creating>>

\* await client.query('UPDATE subtasks SET ... WHERE id = $4'): the new row version
\* stays private to the transaction until COMMIT; assigned_to REFERENCES users(id),
\* so the statement throws for a userId that is no user, and the catch block runs.
TakeUpdateStep(p) ==
    /\ req[p].pc = "update"
    /\ ~ UserDeletePending(p, req[p].userId)
    /\ IF req[p].userId \in DOMAIN users
       THEN /\ req' = [req EXCEPT ![p].pc = "commit"]
       ELSE /\ req' = [req EXCEPT ![p].pc = "rollback", ![p].code = 500]
    /\ last' = Response("takeSubtask", 0, "")
    /\ UNCHANGED <<users, teams, tasks, subtasks, nextUserId, nextTaskId, nextSubtaskId,
                   lock, creating>>

\* await client.query('COMMIT'): the row version becomes visible, the lock is freed.
TakeCommit(p) ==
    /\ req[p].pc = "commit"
    /\ LET s == req[p].subtaskId
       IN  /\ subtasks' = [subtasks EXCEPT ![s] = TakeUpdate(@, req[p].userId)]
           /\ lock' = Unlock(lock, p)
    /\ req' = [req EXCEPT ![p] = EndTxn([@ EXCEPT !.pc = "read"])]
    /\ last' = Response("takeSubtask", 0, "")
    /\ UNCHANGED <<users, teams, tasks, nextUserId, nextTaskId, nextSubtaskId, creating>>

\* await client.query('ROLLBACK'), then the response chosen before it
\* (404, 400, or the outer catch's 500); the lock is freed.
TakeRollback(p) ==
    /\ req[p].pc = "rollback"
    /\ lock' = Unlock(lock, p)
    /\ RespondFrom(p, EndTxn(req[p]), req[p].code,
               CASE req[p].code = 404 -> "Subtask not found"
                 [] req[p].code = 400 -> "This subtask is no longer available"
                 [] OTHER -> "Internal server error")
    /\ UNCHANGED <<users, teams, tasks, subtasks, nextUserId, nextTaskId, nextSubtaskId,
                   creating>>

\* await getSubtaskWithDetails(subtaskId); res.json({ message, subtask })
TakeRead(p) ==
    /\ req[p].pc = "read"
    /\ Respond(p, 200, "")
    /\ UNCHANGED <<users, teams, tasks, subtasks, nextUserId, nextTaskId, nextSubtaskId,
                   lock, creating>>

(***************************************************************************)
(* Concurrent claims of subtasks.  The tables start as registration and    *)
(* task creation leave them: a leader (id 1) and approved members of one   *)
(* team, one task of the leader, and its subtasks in any state the task    *)
(* handlers produce.                                                       *)
(***************************************************************************)
TakeTeam == "AB12CD"

\* The leader (id 1) and an approved member (id 2); id 3 was never handed out.
TakeUsers ==
    (1 :> UserRow("a@x.com", "leader", TakeTeam, "approved"))
    @@ (2 :> [UserRow("b@x.com", "member", TakeTeam, "approved") EXCEPT !.approved_by = 1])

\* Rows of subtasks as createTask, takeSubtask, assignSubtask and updateProgress
\* leave them.
TakeRows ==
    {SubtaskRow(1, NoId, "available", "not_started"),
     SubtaskRow(1, 2, "assigned", "assigned"),
     SubtaskRow(1, 2, "taken", "in_progress"),
     SubtaskRow(1, 2, "completed", "completed")}

InitTake ==
    /\ users = TakeUsers
    /\ teams = (TakeTeam :> TeamRow(1))
    /\ tasks = (1 :> TaskRow(TakeTeam, 1))
    /\ subtasks \in [SubtaskIds -> TakeRows]
    /\ nextUserId = 3
    /\ nextTaskId = 2
    /\ nextSubtaskId = MaxSubtasks + 1
    /\ lock = [s \in SubtaskIds |-> 0]
    /\ req = [p \in Procs |-> NoRequest]
    /\ creating = NoCreate
    /\ last = NoResponse

\* Ids a request may name: absent (0), a row's, or one that is no row's.
TakeSubtaskArgs == 1..(MaxSubtasks + 1)
TakeUserArgs == 0..3

NextTake ==
    \/ \E p \in Procs, s \in TakeSubtaskArgs, u \in TakeUserArgs : TakeArrive(p, s, u)
    \/ \E p \in Procs : TakeBegin(p)
    \/ \E p \in Procs : TakeSelect(p)
    \/ \E p \in Procs : TakeUpdateStep(p)
    \/ \E p \in Procs : TakeCommit(p)
    \/ \E p \in Procs : TakeRollback(p)
    \/ \E p \in Procs : TakeRead(p)

SpecTake == InitTake /\ [][NextTake]_vars

(***************************************************************************)
(* routes/tasks.js: the handlers that act on the subtasks of existing      *)
(* tasks, one request at a time.                                           *)
(***************************************************************************)
\* CHECK (progress IN ('not_started', 'assigned', 'in_progress', 'testing',
\* 'completed'))
ProgressValuesUnchecked ==
    {"not_started", "assigned", "in_progress", "testing", "completed", "bogus"}

ProgressValues == {"not_started", "assigned", "in_progress", "testing", "completed"}

\* UPDATE subtasks SET assigned_to = $1, status = 'assigned', progress = 'assigned'
\* WHERE id = $4
AssignUpdateIfAvailable(row, userId) ==
    IF row.status = "available"
    THEN [row EXCEPT !.assigned_to = userId, !.status = "assigned", !.progress = "assigned"]
    ELSE row

AssignUpdate(row, userId) ==
    [row EXCEPT !.assigned_to = userId, !.status = "assigned", !.progress = "assigned"]

\* PUT /subtask/:subtaskId/assign-to
assignSubtask(subtaskId, userId, assignedBy) ==
    IF userId = NoId \/ assignedBy = NoId
    THEN Reply(Db, 400, "User ID and assignedBy are required")
    ELSE IF subtaskId \notin DOMAIN subtasks
    THEN Reply(Db, 404, "Subtask not found")
    ELSE IF userId \notin DOMAIN users
    THEN \* assigned_to REFERENCES users(id): the UPDATE throws
         Reply(Db, 500, "Internal server error")
    ELSE Reply([Db EXCEPT !.subtasks[subtaskId] = AssignUpdate(@, userId)], 200, "")

\* const isOwner = subtask.assigned_to === parseInt(userId)
isOwner(subtask, userId) == subtask.assigned_to = userId

\* const isLeader = user.role === 'leader' && user.team_code === subtask.team_code
isLeaderOfAnyTeam(user, task) == user.role = "leader"

isLeader(user, task) == user.role = "leader" /\ user.team_code = task.team_code

\* const isTaskCreator = subtask.created_by === parseInt(userId)
isTaskCreator(task, userId) == task.created_by = userId

\* let status = subtask.status; if (progress === 'completed') ... else if
\* (progress === 'in_progress' && status === 'assigned') ...
StatusForProgressAlwaysTaken(status, progress) ==
    IF progress = "completed" THEN "completed"
    ELSE IF progress = "in_progress" THEN "taken"
    ELSE status

StatusForProgressUnlessAvailable(status, progress) ==
    IF progress = "completed" /\ status /= "available" THEN "completed"
    ELSE IF progress = "in_progress" /\ status = "assigned" THEN "taken"
    ELSE status

StatusForProgress(status, progress) ==
    IF progress = "completed" THEN "completed"
    ELSE IF progress = "in_progress" /\ status = "assigned" THEN "taken"
    ELSE status

\* PUT /subtask/:subtaskId/progress
updateProgress(subtaskId, progress, userId) ==
    IF progress = NoCode \/ userId = NoId
    THEN Reply(Db, 400, "Progress and user ID are required")
    ELSE IF subtaskId \notin DOMAIN subtasks
    THEN Reply(Db, 404, "Subtask not found")
    ELSE IF userId \notin DOMAIN users
    THEN Reply(Db, 403, "User not found")
    ELSE LET subtask == subtasks[subtaskId]
             task == tasks[subtask.task_id]
             user == users[userId]
         IN  IF /\ ~ isOwner(subtask, userId)
                /\ ~ isLeader(user, task)
                /\ ~ isTaskCreator(task, userId)
             THEN Reply(Db, 403, "Not authorized to update this subtask")
             ELSE IF progress \notin ProgressValues
             THEN \* subtasks_progress_check: the first UPDATE throws
                  Reply(Db, 500, "Internal server error")
             ELSE Reply([Db EXCEPT !.subtasks[subtaskId].progress = progress,
                                   !.subtasks[subtaskId].status =
                                        StatusForProgress(subtask.status, progress)],
                        200, "")

\* const isCreator = subtask.created_by === parseInt(userId)  (task.created_by in
\* the handlers of a task)
isCreatorAnyUser(task, userId) == TRUE

isCreator(task, userId) == task.created_by = userId

\* let status = 'available'; let progress = 'not_started'; if (assigned_to) { ... }
\* UPDATE subtasks SET title, description, assigned_to, status, progress WHERE id = $6
EditUpdateKeepsProgress(row, assignedTo) ==
    IF assignedTo = row.assigned_to THEN row
    ELSE IF assignedTo /= NoId
    THEN [row EXCEPT !.assigned_to = assignedTo, !.status = "assigned",
                     !.progress = "assigned"]
    ELSE [row EXCEPT !.assigned_to = NoId, !.status = "available",
                     !.progress = "not_started"]

EditUpdate(row, assignedTo) ==
    IF assignedTo /= NoId
    THEN [row EXCEPT !.assigned_to = assignedTo, !.status = "assigned",
                     !.progress = "assigned"]
    ELSE [row EXCEPT !.assigned_to = NoId, !.status = "available",
                     !.progress = "not_started"]

\* PUT /subtask/:subtaskId.  The title and description columns are not part of
\* the rows of the model; title is NOT NULL, so a request without title makes
\* the UPDATE throw.
editSubtask(subtaskId, title, assignedTo, userId) ==
    IF userId = NoId
    THEN Reply(Db, 400, "User ID is required")
    ELSE IF subtaskId \notin DOMAIN subtasks
    THEN Reply(Db, 404, "Subtask not found")
    ELSE IF userId \notin DOMAIN users
    THEN Reply(Db, 403, "User not found")
    ELSE LET task == tasks[subtasks[subtaskId].task_id]
             user == users[userId]
         IN  IF ~ isCreator(task, userId) /\ ~ isLeader(user, task)
             THEN Reply(Db, 403, "Not authorized to edit this subtask")
             ELSE IF title = NoCode
             THEN \* title VARCHAR(255) NOT NULL
                  Reply(Db, 500, "Internal server error")
             ELSE IF assignedTo /= NoId /\ assignedTo \notin DOMAIN users
             THEN \* assigned_to REFERENCES users(id)
                  Reply(Db, 500, "Internal server error")
             ELSE Reply([Db EXCEPT !.subtasks[subtaskId] = EditUpdate(@, assignedTo)],
                        200, "")

EditSubtask(subtaskId, title, assignedTo, userId) ==
    /\ TRUE
    /\ Serve("editSubtask", editSubtask(subtaskId, title, assignedTo, userId))

AssignSubtask(subtaskId, userId, assignedBy) ==
    /\ TRUE
    /\ Serve("assignSubtask", assignSubtask(subtaskId, userId, assignedBy))

UpdateProgress(subtaskId, progress, userId) ==
    /\ TRUE
    /\ Serve("updateProgress", updateProgress(subtaskId, progress, userId))

(***************************************************************************)
(* Work on the subtasks of a team: the tables start as registration and    *)
(* task creation leave them (the leader, id 1, and an approved member, id  *)
(* 2, of one team; one task, created by either of them, for their team or  *)
(* under another team code; its subtasks in any state), and the leader and *)
(* the member assign subtasks, report progress and delete the member.      *)
(***************************************************************************)
\* POST /create checks neither the creator's role nor the team code it is given.
TaskFixtures ==
    {TaskRow(TakeTeam, 1), TaskRow(TakeTeam, 2), TaskRow("ZZ99ZZ", 2)}

InitTasks ==
    /\ users = TakeUsers
    /\ teams = (TakeTeam :> TeamRow(1))
    /\ tasks \in [{1} -> TaskFixtures]
    /\ subtasks \in [SubtaskIds -> TakeRows]
    /\ nextUserId = 3
    /\ nextTaskId = 2
    /\ nextSubtaskId = MaxSubtasks + 1
    /\ lock = [s \in SubtaskIds |-> 0]
    /\ req = [p \in Procs |-> NoRequest]
    /\ creating = NoCreate
    /\ last = NoResponse

\* The title a request may carry: absent, or a text.
TitleArgs == {NoCode, "title"}

\* Progress values a request may carry: absent, values of the CHECK, another one.
ProgressArgs == {NoCode, "bogus"} \cup ProgressValues

NextTasks ==
    \/ \E s \in TakeSubtaskArgs, u \in TakeUserArgs, a \in TakeUserArgs :
            AssignSubtask(s, u, a)
    \/ \E s \in TakeSubtaskArgs, g \in ProgressArgs, u \in TakeUserArgs :
            UpdateProgress(s, g, u)
    \/ \E c \in TeamCodes, m \in TakeUserArgs, l \in TakeUserArgs :
            DeleteTeamMember(c, m, l)
    \/ \E s \in TakeSubtaskArgs, t \in TitleArgs, a \in TakeUserArgs, u \in TakeUserArgs :
            EditSubtask(s, t, a, u)

SpecTasks == InitTasks /\ [][NextTasks]_vars

(***************************************************************************)
(* routes/tasks.js: POST /create, statement by statement.  The rows a      *)
(* transaction has inserted are its own (creating.task, creating.rows)     *)
(* until COMMIT; the tables tasks and subtasks are what every other        *)
(* request reads.                                                          *)
(***************************************************************************)
\* let status = 'available'; let assignedTo = null; let progress = 'not_started';
\* if (assignSpecific && subtask.assigned_to) { ... }
\* A subtask of the request is its assigned_to field (0: none given).
NewSubtaskRowIgnoringFlag(taskId, assignedTo, assignSpecific) ==
    IF assignedTo /= NoId
    THEN SubtaskRow(taskId, assignedTo, "assigned", "assigned")
    ELSE SubtaskRow(taskId, NoId, "available", "not_started")

NewSubtaskRow(taskId, assignedTo, assignSpecific) ==
    IF assignSpecific /\ assignedTo /= NoId
    THEN SubtaskRow(taskId, assignedTo, "assigned", "assigned")
    ELSE SubtaskRow(taskId, NoId, "available", "not_started")

\* client.query('INSERT ...') between BEGIN and COMMIT: what the table read by
\* the other requests holds after the statement (the row is not in it).
InsertAutocommit(table, id, row) == table @@ (id :> row)

InsertInTxn(table, id, row) == table

\* getSubtasksForTask(taskId): the ids of the rows
getSubtasksForTask(taskId) == {s \in DOMAIN subtasks : subtasks[s].task_id = taskId}

\* getTaskWithSubtasks(taskId): null (<<>>) when no such task
getTaskWithSubtasks(taskId) ==
    IF taskId \notin DOMAIN tasks THEN <<>>
    ELSE [id |-> taskId, task |-> tasks[taskId], subtasks |-> getSubtasksForTask(taskId)]

\* The request arrives: the validation and pool.connect().
CreateArrive(teamCode, createdBy, assignSpecific, subs) ==
    /\ creating.pc \in {"idle", "done"}
    /\ nextTaskId <= MaxTasks
    /\ LET r == [NoCreate EXCEPT !.teamCode = teamCode, !.createdBy = createdBy,
                                 !.assignSpecific = assignSpecific, !.subs = subs]
       IN  IF teamCode = NoCode \/ createdBy = NoId \/ Len(subs) = 0
           THEN /\ creating' = Send([r EXCEPT !.pc = "done", !.code = 400])
                /\ last' = Response("createTask", 400, "Missing required fields")
           ELSE /\ creating' = Connect([r EXCEPT !.pc = "begin"])
                /\ last' = Response("createTask", 0, "")
    /\ UNCHANGED <<users, teams, tasks, subtasks, nextUserId, nextTaskId, nextSubtaskId,
                   lock, req>>

\* await client.query('BEGIN')
CreateBegin ==
    /\ creating.pc = "begin"
    /\ creating' = BeginTxn([creating EXCEPT !.pc = "task"])
    /\ last' = Response("createTask", 0, "")
    /\ UNCHANGED <<users, teams, tasks, subtasks, nextUserId, nextTaskId, nextSubtaskId,
                   lock, req>>

\* await client.query('INSERT INTO tasks ... RETURNING *'): the sequence hands out
\* the id; created_by REFERENCES users(id), so the statement throws for a
\* createdBy that is no user.
CreateInsertTask ==
    /\ creating.pc = "task"
    /\ ~ UserDeletePending(0, creating.createdBy)
    /\ nextTaskId' = nextTaskId + 1
    /\ IF creating.createdBy \in DOMAIN users
       THEN LET row == TaskRow(creating.teamCode, creating.createdBy)
            IN  /\ creating' = [creating EXCEPT !.pc = "subtask", !.taskId = nextTaskId,
                                                !.task = <<row>>]
                /\ tasks' = InsertInTxn(tasks, nextTaskId, row)
       ELSE /\ creating' = [creating EXCEPT !.pc = "rollback", !.code = 500]
            /\ UNCHANGED tasks
    /\ last' = Response("createTask", 0, "")
    /\ UNCHANGED <<users, teams, subtasks, nextUserId, nextSubtaskId, lock, req>>

\* One turn of the loop: await client.query('INSERT INTO subtasks ...');
\* assigned_to REFERENCES users(id), so the statement throws for an assignee
\* that is no user.  After the last subtask the handler goes on to COMMIT.
CreateInsertSubtask ==
    /\ creating.pc = "subtask"
    /\ LET k == Len(creating.rows) + 1
           row == NewSubtaskRow(creating.taskId, creating.subs[k], creating.assignSpecific)
       IN  /\ ~ UserDeletePending(0, row.assigned_to)
           /\ nextSubtaskId' = nextSubtaskId + 1
           /\ IF row.assigned_to = NoId \/ row.assigned_to \in DOMAIN users
              THEN /\ creating' = [creating EXCEPT
                        !.rows = Append(@, [id |-> nextSubtaskId, row |-> row]),
                        !.inserted = k,
                        !.pc = IF k = Len(creating.subs) THEN "commit" ELSE "subtask"]
                   /\ subtasks' = InsertInTxn(subtasks, nextSubtaskId, row)
              ELSE /\ creating' = [creating EXCEPT !.pc = "rollback", !.code = 500]
                   /\ UNCHANGED subtasks
    /\ last' = Response("createTask", 0, "")
    /\ UNCHANGED <<users, teams, tasks, nextUserId, nextTaskId, lock, req>>

\* await client.query('COMMIT'): the transaction's rows become the tables' rows.
CreateCommit ==
    /\ creating.pc = "commit"
    /\ tasks' = tasks @@ (creating.taskId :> creating.task[1])
    /\ subtasks' = subtasks @@ [i \in {creating.rows[k].id : k \in 1..Len(creating.rows)} |->
                        (CHOOSE e \in {creating.rows[k] : k \in 1..Len(creating.rows)} :
                            e.id = i).row]
    /\ creating' = EndTxn([creating EXCEPT !.pc = "read"])
    /\ last' = Response("createTask", 0, "")
    /\ UNCHANGED <<users, teams, nextUserId, nextTaskId, nextSubtaskId, lock, req>>

\* await getTaskWithSubtasks(taskId); res.json({ message, task })
CreateRead ==
    /\ creating.pc = "read"
    /\ creating' = Release(Send([creating EXCEPT !.pc = "done", !.code = 200]))
    /\ last' = Response("createTask", 200, "")
    /\ UNCHANGED <<users, teams, tasks, subtasks, nextUserId, nextTaskId, nextSubtaskId,
                   lock, req>>

\* catch: await client.query('ROLLBACK'); throw error; the outer catch answers 500.
\* The transaction's rows are discarded.
CreateRollback ==
    /\ creating.pc = "rollback"
    /\ creating' = Release(Send(EndTxn([creating EXCEPT !.pc = "done", !.task = <<>>,
                                                       !.rows = <<>>])))
    /\ last' = Response("createTask", 500, "Internal server error")
    /\ UNCHANGED <<users, teams, tasks, subtasks, nextUserId, nextTaskId, nextSubtaskId,
                   lock, req>>

\* GET /team/:teamCode, a request served while a createTask is in flight: it
\* reads the tables and writes nothing.
GetTeamTasks(teamCode) ==
    /\ last' = Response("getTeamTasks", 200, "")
    /\ UNCHANGED <<users, teams, tasks, subtasks, nextUserId, nextTaskId, nextSubtaskId,
                   lock, req, creating>>

(***************************************************************************)
(* Creating tasks: the leader and the member of the team fixture, no task  *)
(* yet; createTask requests one after the other, each interleaved with     *)
(* requests that read the tables.                                          *)
(***************************************************************************)
InitCreate ==
    /\ users = TakeUsers
    /\ teams = (TakeTeam :> TeamRow(1))
    /\ tasks = EmptyTable
    /\ subtasks = EmptyTable
    /\ nextUserId = 3
    /\ nextTaskId = 1
    /\ nextSubtaskId = 1
    /\ lock = [s \in SubtaskIds |-> 0]
    /\ req = [p \in Procs |-> NoRequest]
    /\ creating = NoCreate
    /\ last = NoResponse

\* assigned_to of a subtask of the request: none, the member, an id of no user.
Assignees == {NoId, 2, 3}

\* req.body.subtasks: absent or empty, one subtask, two subtasks.
SubLists ==
    {<<>>} \cup {<<a>> : a \in Assignees} \cup {<<a, b>> : a \in Assignees, b \in Assignees}

NextCreate ==
    \/ \E c \in {NoCode, TakeTeam}, u \in TakeUserArgs, f \in BOOLEAN, l \in SubLists :
            CreateArrive(c, u, f, l)
    \/ CreateBegin
    \/ CreateInsertTask
    \/ CreateInsertSubtask
    \/ CreateCommit
    \/ CreateRead
    \/ CreateRollback
    \/ \E c \in TeamCodes : GetTeamTasks(c)

SpecCreate == InitCreate /\ [][NextCreate]_vars

(***************************************************************************)
(* routes/tasks.js: editing and deleting tasks and subtasks, listing the   *)
(* tasks of a team by status.                                              *)
(***************************************************************************)
\* PUT /:taskId.  UPDATE tasks SET title = $1, description = $2 WHERE id = $3;
\* title is NOT NULL, so a request without title makes the UPDATE throw.
editTask(taskId, title, userId) ==
    IF userId = NoId
    THEN Reply(Db, 400, "User ID is required")
    ELSE IF taskId \notin DOMAIN tasks
    THEN Reply(Db, 404, "Task not found")
    ELSE IF userId \notin DOMAIN users
    THEN Reply(Db, 403, "User not found")
    ELSE IF ~ isCreator(tasks[taskId], userId) /\ ~ isLeader(users[userId], tasks[taskId])
    THEN Reply(Db, 403, "Not authorized to edit this task")
    ELSE IF title = NoCode
    THEN Reply(Db, 500, "Internal server error")
    ELSE Reply([Db EXCEPT !.tasks[taskId].title = title], 200, "")

\* DELETE FROM subtasks WHERE task_id = $1
DeleteSubtasksOf(S, taskId) ==
    [s \in {i \in DOMAIN S : S[i].task_id /= taskId} |-> S[s]]

\* DELETE FROM tasks WHERE id = $1
DeleteTaskRow(T, taskId) == [t \in DOMAIN T \ {taskId} |-> T[t]]

\* FOREIGN KEY (task_id) REFERENCES tasks(id) ON DELETE CASCADE: the subtasks
\* that remain once their task's row is deleted go with it.
OnDeleteCascade(S, T) == [s \in {i \in DOMAIN S : S[i].task_id \in DOMAIN T} |-> S[s]]

\* BEGIN; the two DELETEs; COMMIT.
deleteTaskRowOnly(taskId) ==
    Reply(Commit(Db, [Db EXCEPT !.tasks = DeleteTaskRow(tasks, taskId)]), 200, "")

deleteTaskTxn(taskId) ==
    LET S1 == DeleteSubtasksOf(subtasks, taskId)
        T1 == DeleteTaskRow(tasks, taskId)
    IN  Reply(Commit(Db, [Db EXCEPT !.tasks = T1, !.subtasks = OnDeleteCascade(S1, T1)]),
              200, "")

\* DELETE /:taskId
deleteTask(taskId, userId) ==
    IF userId = NoId
    THEN Reply(Db, 400, "User ID is required")
    ELSE IF taskId \notin DOMAIN tasks
    THEN Reply(Db, 404, "Task not found")
    ELSE IF userId \notin DOMAIN users
    THEN Reply(Db, 403, "User not found")
    ELSE IF ~ isCreator(tasks[taskId], userId) /\ ~ isLeader(users[userId], tasks[taskId])
    THEN Reply(Db, 403, "Not authorized to delete this task")
    ELSE deleteTaskTxn(taskId)

\* DELETE /subtask/:subtaskId.  DELETE FROM subtasks WHERE id = $1
deleteSubtask(subtaskId, userId) ==
    IF userId = NoId
    THEN Reply(Db, 400, "User ID is required")
    ELSE IF subtaskId \notin DOMAIN subtasks
    THEN Reply(Db, 404, "Subtask not found")
    ELSE IF userId \notin DOMAIN users
    THEN Reply(Db, 403, "User not found")
    ELSE LET task == tasks[subtasks[subtaskId].task_id]
         IN  IF ~ isCreator(task, userId) /\ ~ isLeader(users[userId], task)
             THEN Reply(Db, 403, "Not authorized to delete this subtask")
             ELSE Reply([Db EXCEPT !.subtasks =
                            [s \in DOMAIN subtasks \ {subtaskId} |-> subtasks[s]]],
                        200, "")

\* The row of s.* that the LEFT JOIN yields for a task without subtasks: NULLs.
NullSubtask ==
    [task_id |-> NoId, assigned_to |-> NoId, status |-> NoCode, progress |-> NoCode,
     deadline |-> NoCode]

\* FROM tasks t LEFT JOIN subtasks s ON t.id = s.task_id: the s-sides of the
\* joined rows of task taskId.
LeftJoinSubtasks(taskId) ==
    IF getSubtasksForTask(taskId) = {}
    THEN {NullSubtask}
    ELSE {subtasks[s] : s \in getSubtasksForTask(taskId)}

\* statusCondition: "AND s.status != 'completed'" for active, "AND s.status =
\* 'completed'" for completed, nothing for another status.  A comparison with
\* NULL is not true.
StatusConditionOrNull(status, s) ==
    IF status = "active" THEN s.status = NoCode \/ s.status /= "completed"
    ELSE IF status = "completed" THEN s.status /= NoCode /\ s.status = "completed"
    ELSE TRUE

StatusCondition(status, s) ==
    IF status = "active" THEN s.status /= NoCode /\ s.status /= "completed"
    ELSE IF status = "completed" THEN s.status /= NoCode /\ s.status = "completed"
    ELSE TRUE

\* GET /team/:teamCode/status/:status: the ids of the tasks SELECT DISTINCT t.*
\* returns.
listByStatus(teamCode, status) ==
    {t \in DOMAIN tasks :
        /\ tasks[t].team_code = teamCode
        /\ \E s \in LeftJoinSubtasks(t) : StatusCondition(status, s)}

\* The second router.get('/team/:teamCode/status/:status'), registered after the
\* first: statusCondition "AND (s.status != 'completed' OR s.status IS NULL)"
\* for active.
DuplicateStatusCondition(status, s) ==
    IF status = "active" THEN s.status = NoCode \/ s.status /= "completed"
    ELSE IF status = "completed" THEN s.status /= NoCode /\ s.status = "completed"
    ELSE TRUE

listByStatusDuplicate(teamCode, status) ==
    {t \in DOMAIN tasks :
        /\ tasks[t].team_code = teamCode
        /\ \E s \in LeftJoinSubtasks(t) : DuplicateStatusCondition(status, s)}

\* The handlers registered for GET /team/:teamCode/status/:status, in the order
\* of their registration, each with the answer it would send.
StatusRoutes(teamCode, status) ==
    <<listByStatus(teamCode, status), listByStatusDuplicate(teamCode, status)>>

\* The router runs the handlers that match a request in the order of their
\* registration; a handler that answers without calling next() ends the
\* dispatch.  Both handlers answer, so the first one serves every request.
DispatchLast(handlers) == handlers[Len(handlers)]

Dispatch(handlers) == handlers[1]

\* GET /team/:teamCode/status/:status as the router serves it.
getTasksByStatus(teamCode, status) == Dispatch(StatusRoutes(teamCode, status))

EditTask(taskId, title, userId) ==
    /\ TRUE
    /\ Serve("editTask", editTask(taskId, title, userId))

DeleteTask(taskId, userId) ==
    /\ TRUE
    /\ Serve("deleteTask", deleteTask(taskId, userId))

DeleteSubtask(subtaskId, userId) ==
    /\ TRUE
    /\ Serve("deleteSubtask", deleteSubtask(subtaskId, userId))

\* The listing reads the tables and writes nothing.
ListByStatus(teamCode, status) ==
    /\ getTasksByStatus(teamCode, status) \subseteq DOMAIN tasks
    /\ Serve("listByStatus", Reply(Db, 200, ""))

(***************************************************************************)
(* Editing and deleting: the leader and the member of the team fixture,    *)
(* two tasks, each created by either of them for their team or under       *)
(* another team code, and subtasks of either task in any state.            *)
(***************************************************************************)
EditTaskIds == {1, 2}

EditRows ==
    {SubtaskRow(t, NoId, "available", "not_started") : t \in EditTaskIds}
        \cup {SubtaskRow(t, 2, "taken", "in_progress") : t \in EditTaskIds}
        \cup {SubtaskRow(t, 2, "completed", "completed") : t \in EditTaskIds}

InitEdit ==
    /\ users = TakeUsers
    /\ teams = (TakeTeam :> TeamRow(1))
    /\ tasks \in [EditTaskIds -> TaskFixtures]
    /\ subtasks \in [SubtaskIds -> EditRows]
    /\ nextUserId = 3
    /\ nextTaskId = 3
    /\ nextSubtaskId = MaxSubtasks + 1
    /\ lock = [s \in SubtaskIds |-> 0]
    /\ req = [p \in Procs |-> NoRequest]
    /\ creating = NoCreate
    /\ last = NoResponse

\* Ids of tasks a request may name: a row's, or one that is no row's.
EditTaskArgs == EditTaskIds \cup {3}

\* The title an edit may carry: absent, the one the task has, another one.
EditTitleArgs == TitleArgs \cup {"edited"}

\* :status of the listing: active, completed, another word.
StatusArgs == {"active", "completed", "all"}

NextEdit ==
    \/ \E t \in EditTaskArgs, x \in EditTitleArgs, u \in TakeUserArgs : EditTask(t, x, u)
    \/ \E s \in TakeSubtaskArgs, x \in TitleArgs, a \in {NoId, 2}, u \in TakeUserArgs :
            EditSubtask(s, x, a, u)
    \/ \E t \in EditTaskArgs, u \in TakeUserArgs : DeleteTask(t, u)
    \/ \E s \in TakeSubtaskArgs, u \in TakeUserArgs : DeleteSubtask(s, u)
    \/ \E c \in TeamCodes, x \in StatusArgs : ListByStatus(c, x)

SpecEdit == InitEdit /\ [][NextEdit]_vars

(***************************************************************************)
(* routes/auth.js: the two registrations query by query.  register-leader  *)
(* runs its INSERTs in a transaction on its own connection; register-      *)
(* member runs each query on its own.  req[p].userId is the id the users   *)
(* sequence handed to the request, req[p].found says that its existence    *)
(* check found no user, req[p].status names the table whose UNIQUE         *)
(* constraint refused an INSERT.                                           *)
(***************************************************************************)
\* email VARCHAR(255) UNIQUE NOT NULL: the INSERT INTO users goes through only
\* for an email no row has.
UniqueEmailUnchecked(U, email) == TRUE

UniqueEmail(U, email) == ~ \E i \in DOMAIN U : U[i].email = email

\* An INSERT of a key that another transaction has inserted and not committed
\* waits for that transaction to end.
EmailInsertPending(p, email) ==
    \E q \in Procs \ {p} : req[q].pc \in {"rl_team", "rl_commit"} /\ req[q].email = email

TeamInsertPending(p, teamCode) ==
    \E q \in Procs \ {p} : req[q].pc = "rl_commit" /\ req[q].teamCode = teamCode

RegRespond(p, op, code, error) ==
    /\ req' = [req EXCEPT ![p].pc = "done", ![p].code = code, ![p].responses = @ + 1]
    /\ last' = Response(op, code, error)

RegAwait(p, op, pc) ==
    /\ req' = [req EXCEPT ![p].pc = pc]
    /\ last' = Response(op, 0, "")

\* POST /register-leader arrives.
RegLeaderArrive(p, email) ==
    /\ req[p].pc = "idle"
    /\ req' = [req EXCEPT ![p] = [NoRequest EXCEPT !.pc = "rl_exists", !.email = email,
                                                   !.role = "leader"]]
    /\ last' = Response("registerLeader", 0, "")
    /\ UNCHANGED <<users, teams, tasks, subtasks, nextUserId, nextTaskId, nextSubtaskId,
                   lock, creating>>

\* SELECT * FROM users WHERE email = $1; 400 when a row exists; then
\* generateTeamCode() and pool.connect().
RegLeaderExists(p, teamCode) ==
    /\ req[p].pc = "rl_exists"
    /\ IF EmailExists(users, req[p].email)
       THEN RegRespond(p, "registerLeader", 400, "User already exists")
       ELSE /\ req' = [req EXCEPT ![p].pc = "rl_begin", ![p].found = TRUE,
                                  ![p].teamCode = teamCode]
            /\ last' = Response("registerLeader", 0, "")
    /\ UNCHANGED <<users, teams, tasks, subtasks, nextUserId, nextTaskId, nextSubtaskId,
                   lock, creating>>

\* await client.query('BEGIN')
RegLeaderBegin(p) ==
    /\ req[p].pc = "rl_begin"
    /\ RegAwait(p, "registerLeader", "rl_user")
    /\ UNCHANGED <<users, teams, tasks, subtasks, nextUserId, nextTaskId, nextSubtaskId,
                   lock, creating>>

\* INSERT INTO users ... 'leader', teamCode, 'approved': the sequence hands out the
\* id, the row stays private to the transaction; the statement throws when a
\* committed row has the email.
RegLeaderInsertUser(p) ==
    /\ req[p].pc = "rl_user"
    /\ ~ EmailInsertPending(p, req[p].email)
    /\ nextUserId' = nextUserId + 1
    /\ IF UniqueEmail(users, req[p].email)
       THEN req' = [req EXCEPT ![p].pc = "rl_team", ![p].userId = nextUserId]
       ELSE req' = [req EXCEPT ![p].pc = "rl_rollback", ![p].code = 500,
                               ![p].status = "users"]
    /\ last' = Response("registerLeader", 0, "")
    /\ UNCHANGED <<users, teams, tasks, subtasks, nextTaskId, nextSubtaskId, lock, creating>>

\* INSERT INTO teams (team_code, team_name, leader_id)
RegLeaderInsertTeam(p) ==
    /\ req[p].pc = "rl_team"
    /\ ~ TeamInsertPending(p, req[p].teamCode)
    /\ IF UniqueTeamCode(teams, req[p].teamCode)
       THEN req' = [req EXCEPT ![p].pc = "rl_commit"]
       ELSE req' = [req EXCEPT ![p].pc = "rl_rollback", ![p].code = 500,
                               ![p].status = "teams"]
    /\ last' = Response("registerLeader", 0, "")
    /\ UNCHANGED <<users, teams, tasks, subtasks, nextUserId, nextTaskId, nextSubtaskId,
                   lock, creating>>

\* await client.query('COMMIT'): the two rows become rows of the tables.
RegLeaderCommit(p) ==
    /\ req[p].pc = "rl_commit"
    /\ users' = InsertUser(users, req[p].userId,
                           UserRow(req[p].email, "leader", req[p].teamCode, "approved"))
    /\ teams' = teams @@ (req[p].teamCode :> TeamRow(req[p].userId))
    /\ RegAwait(p, "registerLeader", "rl_respond")
    /\ UNCHANGED <<tasks, subtasks, nextUserId, nextTaskId, nextSubtaskId, lock, creating>>

\* res.json({ message, teamCode, user })
RegLeaderRespond(p) ==
    /\ req[p].pc = "rl_respond"
    /\ RegRespond(p, "registerLeader", 200, "")
    /\ UNCHANGED <<users, teams, tasks, subtasks, nextUserId, nextTaskId, nextSubtaskId,
                   lock, creating>>

\* catch: await client.query('ROLLBACK'); throw error; the outer catch answers 500.
RegLeaderRollback(p) ==
    /\ req[p].pc = "rl_rollback"
    /\ RegRespond(p, "registerLeader", 500, "Internal server error")
    /\ UNCHANGED <<users, teams, tasks, subtasks, nextUserId, nextTaskId, nextSubtaskId,
                   lock, creating>>

\* POST /register-member arrives.
RegMemberArrive(p, email, teamCode) ==
    /\ req[p].pc = "idle"
    /\ req' = [req EXCEPT ![p] = [NoRequest EXCEPT !.pc = "rm_team", !.email = email,
                                                   !.teamCode = teamCode,
                                                   !.role = "member"]]
    /\ last' = Response("registerMember", 0, "")
    /\ UNCHANGED <<users, teams, tasks, subtasks, nextUserId, nextTaskId, nextSubtaskId,
                   lock, creating>>

\* SELECT * FROM teams WHERE team_code = $1; 400 when there is no row.
RegMemberTeam(p) ==
    /\ req[p].pc = "rm_team"
    /\ IF TeamExists(teams, req[p].teamCode)
       THEN RegAwait(p, "registerMember", "rm_exists")
       ELSE RegRespond(p, "registerMember", 400, "Invalid team code")
    /\ UNCHANGED <<users, teams, tasks, subtasks, nextUserId, nextTaskId, nextSubtaskId,
                   lock, creating>>

\* SELECT * FROM users WHERE email = $1; 400 when a row exists.
RegMemberExists(p) ==
    /\ req[p].pc = "rm_exists"
    /\ IF EmailExists(users, req[p].email)
       THEN RegRespond(p, "registerMember", 400, "User already exists")
       ELSE /\ req' = [req EXCEPT ![p].pc = "rm_insert", ![p].found = TRUE]
            /\ last' = Response("registerMember", 0, "")
    /\ UNCHANGED <<users, teams, tasks, subtasks, nextUserId, nextTaskId, nextSubtaskId,
                   lock, creating>>

\* INSERT INTO users ... 'member', teamCode, 'pending' with pool.query (its own
\* transaction), then res.json; the catch answers 500 when the statement throws.
RegMemberInsert(p) ==
    /\ req[p].pc = "rm_insert"
    /\ ~ EmailInsertPending(p, req[p].email)
    /\ nextUserId' = nextUserId + 1
    /\ IF UniqueEmail(users, req[p].email)
       THEN /\ users' = InsertUser(users, nextUserId,
                                   UserRow(req[p].email, "member", req[p].teamCode, "pending"))
            /\ req' = [req EXCEPT ![p].pc = "done", ![p].code = 200,
                                  ![p].userId = nextUserId, ![p].responses = @ + 1]
            /\ last' = Response("registerMember", 200, "")
       ELSE /\ UNCHANGED users
            /\ req' = [req EXCEPT ![p].pc = "done", ![p].code = 500,
                                  ![p].status = "users", ![p].responses = @ + 1]
            /\ last' = Response("registerMember", 500, "Internal server error")
    /\ UNCHANGED <<teams, tasks, subtasks, nextTaskId, nextSubtaskId, lock, creating>>

(***************************************************************************)
(* Concurrent registrations: one team and its leader (id 1) exist; each    *)
(* process sends one registration, as a leader or as a member, with the    *)
(* leader's email or another one.                                          *)
(***************************************************************************)
InitReg ==
    /\ users = (1 :> UserRow("a@x.com", "leader", TakeTeam, "approved"))
    /\ teams = (TakeTeam :> TeamRow(1))
    /\ tasks = EmptyTable
    /\ subtasks = EmptyTable
    /\ nextUserId = 2
    /\ nextTaskId = 1
    /\ nextSubtaskId = 1
    /\ lock = [s \in SubtaskIds |-> 0]
    /\ req = [p \in Procs |-> NoRequest]
    /\ creating = NoCreate
    /\ last = NoResponse

RegEmails == {"a@x.com", "b@x.com"}

NextReg ==
    \/ \E p \in Procs, e \in RegEmails : RegLeaderArrive(p, e)
    \/ \E p \in Procs, c \in generateTeamCode : RegLeaderExists(p, c)
    \/ \E p \in Procs : RegLeaderBegin(p)
    \/ \E p \in Procs : RegLeaderInsertUser(p)
    \/ \E p \in Procs : RegLeaderInsertTeam(p)
    \/ \E p \in Procs : RegLeaderCommit(p)
    \/ \E p \in Procs : RegLeaderRespond(p)
    \/ \E p \in Procs : RegLeaderRollback(p)
    \/ \E p \in Procs, e \in RegEmails, c \in TeamCodes : RegMemberArrive(p, e, c)
    \/ \E p \in Procs : RegMemberTeam(p)
    \/ \E p \in Procs : RegMemberExists(p)
    \/ \E p \in Procs : RegMemberInsert(p)

SpecReg == InitReg /\ [][NextReg]_vars

(***************************************************************************)
(* routes/tasks.js: PUT /subtask/:subtaskId/deadline.                      *)
(***************************************************************************)
\* Timestamps the deadline column accepts, of the values a request may carry.
DeadlineValues == {"2026-12-31", "2027-01-15"}

\* userCheck.rows.length === 0 || userCheck.rows[0].role !== 'leader' refuses;
\* the user's team_code is selected and not looked at.
DeadlineAllowedAnyUser(U, userId) == userId \in DOMAIN U

DeadlineAllowed(U, userId) == userId \in DOMAIN U /\ U[userId].role = "leader"

updateDeadline(subtaskId, deadline, userId) ==
    IF deadline = NoCode \/ userId = NoId
    THEN Reply(Db, 400, "Deadline and user ID are required")
    ELSE IF ~ DeadlineAllowed(users, userId)
    THEN Reply(Db, 403, "Only team leaders can update deadlines")
    ELSE IF deadline \notin DeadlineValues
    THEN \* deadline TIMESTAMP: the UPDATE throws for a text that is no timestamp
         Reply(Db, 500, "Internal server error")
    ELSE IF subtaskId \notin DOMAIN subtasks
    THEN Reply(Db, 404, "Subtask not found")
    ELSE Reply([Db EXCEPT !.subtasks[subtaskId].deadline = deadline], 200, "")

UpdateDeadline(subtaskId, deadline, userId) ==
    /\ TRUE
    /\ Serve("updateDeadline", updateDeadline(subtaskId, deadline, userId))

(***************************************************************************)
(* Deadlines: the team fixture and a second team with its leader (id 3);   *)
(* one task with its subtasks in any state.  Deadline requests come from   *)
(* the member, from the leader of the second team, from an id of no user   *)
(* and without a user id, while the first team's leader and member assign  *)
(* subtasks and report progress.                                           *)
(***************************************************************************)
OtherTeam == "ZZ99ZZ"

DeadlineUsers == TakeUsers @@ (3 :> UserRow("c@x.com", "leader", OtherTeam, "approved"))

InitDeadline ==
    /\ users = DeadlineUsers
    /\ teams = (TakeTeam :> TeamRow(1)) @@ (OtherTeam :> TeamRow(3))
    /\ tasks \in [{1} -> TaskFixtures]
    /\ subtasks \in [SubtaskIds -> TakeRows]
    /\ nextUserId = 4
    /\ nextTaskId = 2
    /\ nextSubtaskId = MaxSubtasks + 1
    /\ lock = [s \in SubtaskIds |-> 0]
    /\ req = [p \in Procs |-> NoRequest]
    /\ creating = NoCreate
    /\ last = NoResponse

\* req.body.deadline: absent, a timestamp, a text that is no timestamp.
DeadlineArgs == {NoCode, "bogus"} \cup DeadlineValues

\* req.body.userId of a deadline request.
DeadlineCallers == {NoId, 2, 3, 4}

NextDeadline ==
    \/ \E s \in TakeSubtaskArgs, d \in DeadlineArgs, u \in DeadlineCallers :
            UpdateDeadline(s, d, u)
    \/ \E s \in TakeSubtaskArgs, u \in 1..2 : AssignSubtask(s, u, 1)
    \/ \E s \in TakeSubtaskArgs, g \in {"in_progress", "completed"}, u \in 1..2 :
            UpdateProgress(s, g, u)

SpecDeadline == InitDeadline /\ [][NextDeadline]_vars

(***************************************************************************)
(* Listing by status: the two tasks of the editing fixture with three      *)
(* subtasks between them; subtasks are completed, edited and deleted, and  *)
(* the listing is requested for either team code.                          *)
(***************************************************************************)
ListSubtaskIds == {1, 2, 3}

InitList ==
    /\ users = TakeUsers
    /\ teams = (TakeTeam :> TeamRow(1))
    /\ tasks \in [EditTaskIds -> {TaskRow(TakeTeam, 1), TaskRow("ZZ99ZZ", 2)}]
    /\ subtasks \in [ListSubtaskIds -> EditRows]
    /\ nextUserId = 3
    /\ nextTaskId = 3
    /\ nextSubtaskId = 4
    /\ lock = [s \in SubtaskIds |-> 0]
    /\ req = [p \in Procs |-> NoRequest]
    /\ creating = NoCreate
    /\ last = NoResponse

NextList ==
    \/ \E s \in ListSubtaskIds, u \in 1..2 : DeleteSubtask(s, u)
    \/ \E s \in ListSubtaskIds : UpdateProgress(s, "completed", 2)
    \/ \E s \in ListSubtaskIds : EditSubtask(s, "title", NoId, 2)
    \/ \E c \in TeamCodes, x \in StatusArgs : ListByStatus(c, x)

SpecList == InitList /\ [][NextList]_vars

(***************************************************************************)
(* References to users: the leader and the member of the team fixture and  *)
(* one task of their team, created by either of them, with subtasks in any *)
(* state; the leader rejects and re-approves the member, assigns and edits *)
(* subtasks, deletes the task, and users are deleted through both deleting *)
(* handlers.                                                               *)
(***************************************************************************)
RefFixtures == {TaskRow(TakeTeam, 1), TaskRow(TakeTeam, 2)}

InitRefs ==
    /\ users = TakeUsers
    /\ teams = (TakeTeam :> TeamRow(1))
    /\ tasks \in [{1} -> RefFixtures]
    /\ subtasks \in [SubtaskIds -> TakeRows]
    /\ nextUserId = 3
    /\ nextTaskId = 2
    /\ nextSubtaskId = MaxSubtasks + 1
    /\ lock = [s \in SubtaskIds |-> 0]
    /\ req = [p \in Procs |-> NoRequest]
    /\ creating = NoCreate
    /\ last = NoResponse

NextRefs ==
    \/ \E u \in 1..2 : RejectMember(u, TakeTeam, 1)
    \/ \E u \in 1..2 : ApproveRejectedMember(u, TakeTeam, 1)
    \/ \E u \in 1..3 : DeleteRejectedMember(u)
    \/ \E m \in 1..3, l \in 1..2 : DeleteTeamMember(TakeTeam, m, l)
    \/ \E s \in TakeSubtaskArgs, u \in 1..3 : AssignSubtask(s, u, 1)
    \/ \E s \in TakeSubtaskArgs, a \in TakeUserArgs : EditSubtask(s, "title", a, 1)
    \/ \E u \in 1..2 : DeleteTask(1, u)

SpecRefs == InitRefs /\ [][NextRefs]_vars

(***************************************************************************)
(* The life of tasks: from the empty tables of the creation fixture, tasks *)
(* are created statement by statement while the requests that update or    *)
(* delete subtasks and tasks are served between the statements.            *)
(***************************************************************************)
\* Ids the sequences hand out: every createTask draws one task id and at most
\* two subtask ids.
LifeTaskArgs == 1..MaxTasks
LifeSubtaskArgs == 1..(2 * MaxTasks)

\* req.body.subtasks: one subtask; two, the first one assigned; two, the second
\* one assigned to an id of no user.
LifeSubLists == {<<NoId>>, <<2, NoId>>, <<2, 3>>}

NextLife ==
    \/ \E u \in {2, 3}, l \in LifeSubLists : CreateArrive(TakeTeam, u, TRUE, l)
    \/ CreateBegin
    \/ CreateInsertTask
    \/ CreateInsertSubtask
    \/ CreateCommit
    \/ CreateRead
    \/ CreateRollback
    \/ \E t \in LifeTaskArgs, u \in 1..3 : DeleteTask(t, u)
    \/ \E s \in LifeSubtaskArgs, u \in 1..2 : DeleteSubtask(s, u)
    \/ \E s \in LifeSubtaskArgs, a \in {NoId, 2} : EditSubtask(s, "title", a, 1)
    \/ \E s \in LifeSubtaskArgs : AssignSubtask(s, 2, 1)
    \/ \E s \in LifeSubtaskArgs : UpdateProgress(s, "completed", 1)

SpecLife == InitCreate /\ [][NextLife]_vars

(***************************************************************************)
(* Failing reads.  The two handlers that read the database after COMMIT    *)
(* (createTask: getTaskWithSubtasks, takeSubtask: getSubtaskWithDetails)   *)
(* do so with pool.query inside the try block of the transaction; the      *)
(* promise of a query can reject (the connection is lost, the pool is      *)
(* exhausted, the statement times out).                                    *)
(***************************************************************************)
\* await getTaskWithSubtasks(taskId) throws: catch { await
\* client.query('ROLLBACK'); throw error }, and the outer catch answers 500.
\* The transaction is committed; the ROLLBACK has nothing to undo.
CreateReadFails ==
    /\ creating.pc = "read"
    /\ creating' = Release(Send([creating EXCEPT !.pc = "done", !.code = 500]))
    /\ last' = Response("createTask", 500, "Internal server error")
    /\ UNCHANGED <<users, teams, tasks, subtasks, nextUserId, nextTaskId, nextSubtaskId,
                   lock, req>>

\* await getSubtaskWithDetails(subtaskId) throws: the same two catch blocks.
TakeReadFails(p) ==
    /\ req[p].pc = "read"
    /\ Respond(p, 500, "Internal server error")
    /\ UNCHANGED <<users, teams, tasks, subtasks, nextUserId, nextTaskId, nextSubtaskId,
                   lock, creating>>

\* Tasks are created statement by statement from the creation fixture, and
\* process p claims subtasks for the user with id p.
NextFault ==
    \/ \E u \in {2, 3}, l \in LifeSubLists : CreateArrive(TakeTeam, u, TRUE, l)
    \/ CreateBegin
    \/ CreateInsertTask
    \/ CreateInsertSubtask
    \/ CreateCommit
    \/ CreateRead
    \/ CreateReadFails
    \/ CreateRollback
    \/ \E p \in Procs, s \in SubtaskIds : TakeArrive(p, s, p)
    \/ \E p \in Procs : TakeBegin(p)
    \/ \E p \in Procs : TakeSelect(p)
    \/ \E p \in Procs : TakeUpdateStep(p)
    \/ \E p \in Procs : TakeCommit(p)
    \/ \E p \in Procs : TakeRollback(p)
    \/ \E p \in Procs : TakeRead(p)
    \/ \E p \in Procs : TakeReadFails(p)

SpecFault == InitCreate /\ [][NextFault]_vars

(***************************************************************************)
(* PUT /subtask/:subtaskId/progress query by query.  The handler uses      *)
(* pool.query, each statement in its own transaction, so the statements of *)
(* other requests run between its SELECTs and its two UPDATEs.  req[p].row *)
(* holds the row the first SELECT returned, req[p].status the status the   *)
(* handler will write.                                                     *)
(***************************************************************************)
\* res.status(code).json(...) of the progress handler.
ProgressRespond(p, code, error) ==
    /\ req' = [req EXCEPT ![p].pc = "done", ![p].code = code, ![p].responses = @ + 1]
    /\ last' = Response("updateProgress", code, error)

\* The handler's state after a query that does not end the request.
ProgressAwait(p, pc) ==
    /\ req' = [req EXCEPT ![p].pc = pc]
    /\ last' = Response("updateProgress", 0, "")

\* The request arrives: if (!progress || !userId) return 400
ProgressArrive(p, subtaskId, progress, userId) ==
    /\ req[p].pc = "idle"
    /\ LET r == [req[p] EXCEPT !.subtaskId = subtaskId, !.userId = userId,
                               !.progress = progress]
       IN  IF progress = NoCode \/ userId = NoId
           THEN /\ req' = [req EXCEPT ![p] = Send([r EXCEPT !.pc = "done", !.code = 400])]
                /\ last' = Response("updateProgress", 400,
                                    "Progress and user ID are required")
           ELSE /\ req' = [req EXCEPT ![p] = [r EXCEPT !.pc = "p_subtask"]]
                /\ last' = Response("updateProgress", 0, "")
    /\ UNCHANGED <<users, teams, tasks, subtasks, nextUserId, nextTaskId, nextSubtaskId,
                   lock, creating>>

\* SELECT s.*, t.team_code, t.created_by FROM subtasks s JOIN tasks t ... WHERE
\* s.id = $1; 404 for no row.  A plain SELECT does not wait for row locks.
ProgressSelect(p) ==
    /\ req[p].pc = "p_subtask"
    /\ LET s == req[p].subtaskId
       IN  IF s \notin DOMAIN subtasks
           THEN ProgressRespond(p, 404, "Subtask not found")
           ELSE /\ req' = [req EXCEPT ![p].row = <<subtasks[s]>>,
                                      ![p].found = TRUE,
                                      ![p].pc = "p_user"]
                /\ last' = Response("updateProgress", 0, "")
    /\ UNCHANGED <<users, teams, tasks, subtasks, nextUserId, nextTaskId, nextSubtaskId,
                   lock, creating>>

\* SELECT role, team_code FROM users WHERE id = $1; the two 403 answers; then
\* let status = subtask.status ... from the row read before.
ProgressUserCheck(p) ==
    /\ req[p].pc = "p_user"
    /\ LET u == req[p].userId
           subtask == req[p].row[1]
           task == tasks[subtask.task_id]
       IN  IF u \notin DOMAIN users
           THEN ProgressRespond(p, 403, "User not found")
           ELSE IF /\ ~ isOwner(subtask, u)
                   /\ ~ isLeader(users[u], task)
                   /\ ~ isTaskCreator(task, u)
           THEN ProgressRespond(p, 403, "Not authorized to update this subtask")
           ELSE /\ req' = [req EXCEPT ![p].pc = "p_progress",
                                      ![p].status =
                                          StatusForProgress(subtask.status, req[p].progress)]
                /\ last' = Response("updateProgress", 0, "")
    /\ UNCHANGED <<users, teams, tasks, subtasks, nextUserId, nextTaskId, nextSubtaskId,
                   lock, creating>>

\* UPDATE subtasks SET progress = $1 WHERE id = $2: waits for the row lock of a
\* transaction that selected the row FOR UPDATE; throws for a value the CHECK
\* refuses (the catch answers 500); updates no row when the subtask is gone.
ProgressWriteProgress(p) ==
    /\ req[p].pc = "p_progress"
    /\ RowLockFree(req[p].subtaskId)
    /\ LET s == req[p].subtaskId
       IN  IF req[p].progress \notin ProgressValues
           THEN /\ ProgressRespond(p, 500, "Internal server error")
                /\ UNCHANGED subtasks
           ELSE /\ subtasks' = IF s \in DOMAIN subtasks
                               THEN [subtasks EXCEPT ![s].progress = req[p].progress]
                               ELSE subtasks
                /\ ProgressAwait(p, "p_status")
    /\ UNCHANGED <<users, teams, tasks, nextUserId, nextTaskId, nextSubtaskId,
                   lock, creating>>

\* UPDATE subtasks SET status = $1 WHERE id = $2
ProgressWriteStatus(p) ==
    /\ req[p].pc = "p_status"
    /\ RowLockFree(req[p].subtaskId)
    /\ LET s == req[p].subtaskId
       IN  subtasks' = IF s \in DOMAIN subtasks
                       THEN [subtasks EXCEPT ![s].status = req[p].status]
                       ELSE subtasks
    /\ ProgressAwait(p, "p_read")
    /\ UNCHANGED <<users, teams, tasks, nextUserId, nextTaskId, nextSubtaskId,
                   lock, creating>>

\* await getSubtaskWithDetails(subtaskId); res.json({ message, subtask })
ProgressRead(p) ==
    /\ req[p].pc = "p_read"
    /\ ProgressRespond(p, 200, "")
    /\ UNCHANGED <<users, teams, tasks, subtasks, nextUserId, nextTaskId, nextSubtaskId,
                   lock, creating>>

\* The UPDATE of a request served in one step waits, like every UPDATE, for the
\* row lock of a takeSubtask that selected the row FOR UPDATE.
RowsUnlocked(S) == \A s \in S : RowLockFree(s)

\* DELETE FROM users WHERE id = $1 waits for a takeSubtask whose UPDATE has
\* written the member's id and has not committed (the foreign key's lock).
NoPendingTakeBy(memberId) ==
    \A p \in Procs : ~ (req[p].pc = "commit" /\ req[p].userId = memberId)

(***************************************************************************)
(* Progress reports against the other writers of a subtask: the tables of  *)
(* the take fixture; each process serves one request, a takeSubtask or an  *)
(* updateProgress, query by query, while assignSubtask, editSubtask and    *)
(* deleteTeamMember requests are served between the queries.               *)
(***************************************************************************)
NextRace ==
    \/ \E p \in Procs, s \in SubtaskIds, g \in {"in_progress", "testing", "bogus"},
          u \in 1..3 : ProgressArrive(p, s, g, u)
    \/ \E p \in Procs : ProgressSelect(p)
    \/ \E p \in Procs : ProgressUserCheck(p)
    \/ \E p \in Procs : ProgressWriteProgress(p)
    \/ \E p \in Procs : ProgressWriteStatus(p)
    \/ \E p \in Procs : ProgressRead(p)
    \/ \E p \in Procs, s \in SubtaskIds : TakeArrive(p, s, 2)
    \/ \E p \in Procs : TakeBegin(p)
    \/ \E p \in Procs : TakeSelect(p)
    \/ \E p \in Procs : TakeUpdateStep(p)
    \/ \E p \in Procs : TakeCommit(p)
    \/ \E p \in Procs : TakeRollback(p)
    \/ \E p \in Procs : TakeRead(p)
    \/ \E s \in SubtaskIds : RowsUnlocked({s}) /\ AssignSubtask(s, 2, 1)
    \/ \E s \in SubtaskIds, a \in {NoId, 2} :
            RowsUnlocked({s}) /\ EditSubtask(s, "title", a, 1)
    \/ /\ RowsUnlocked({s \in DOMAIN subtasks : subtasks[s].assigned_to = 2})
       /\ NoPendingTakeBy(2)
       /\ DeleteTeamMember(TakeTeam, 2, 1)

SpecRace == InitTake /\ [][NextRace]_vars

(***************************************************************************)
(* Claims about takeSubtask (checked under SpecTake).                      *)
(***************************************************************************)
\* The requests for subtask s that arrived while its status was available and
\* that name a user: the concurrent claimants of s.
Claimants(s) ==
    {p \in Procs : /\ req[p].pc /= "idle"
                   /\ req[p].subtaskId = s
                   /\ req[p].avail
                   /\ req[p].userId \in DOMAIN users}

\* C1: when two (or more) takeSubtask requests for the same subtask, all arrived
\* while its status was available, have been answered, under any interleaving of
\* their steps, exactly one of them was answered 200 and every other one 400
\* (no longer available), and the subtask is taken by and assigned to the user of
\* the successful request.
C1_ExactlyOneTakeSucceeds ==
    \A s \in DOMAIN subtasks :
        LET R == Claimants(s)
        IN  (Cardinality(R) >= 2 /\ \A p \in R : req[p].pc = "done") =>
                \E w \in R :
                    /\ req[w].code = 200
                    /\ \A p \in R \ {w} : req[p].code = 400
                    /\ subtasks[s].assigned_to = req[w].userId
                    /\ subtasks[s].status = "taken"

\* Two claimants of one subtask, by different users, both answered: one 200, one 400.
C1_Witness ==
    \E p, q \in Procs :
        /\ p /= q
        /\ req[p].pc = "done" /\ req[q].pc = "done"
        /\ req[p].subtaskId = req[q].subtaskId
        /\ {p, q} \subseteq Claimants(req[p].subtaskId)
        /\ req[p].userId /= req[q].userId
        /\ req[p].code = 200 /\ req[q].code = 400

\* C2: a takeSubtask request goes on to its UPDATE, and is answered 200, only if
\* the status it read with SELECT ... FOR UPDATE was available, and from that read
\* to its COMMIT it holds the row lock and the row still is available; once it
\* has committed, the row has assigned_to = userId, status taken and progress
\* in_progress, the three written by the one UPDATE (no row is taken without
\* being in progress and assigned).
C2_TakeOnlyAvailableUnderLock ==
    /\ \A p \in Procs :
        LET s == req[p].subtaskId
        IN  /\ req[p].pc \in {"update", "commit"} =>
                /\ req[p].found /\ req[p].status = "available"
                /\ lock[s] = p
                /\ subtasks[s].status = "available"
            /\ (req[p].pc = "read" \/ req[p].code = 200) =>
                /\ req[p].found /\ req[p].status = "available"
                /\ subtasks[s].assigned_to = req[p].userId
                /\ subtasks[s].status = "taken"
                /\ subtasks[s].progress = "in_progress"
    /\ \A s \in DOMAIN subtasks :
        subtasks[s].status = "taken" =>
            subtasks[s].progress = "in_progress" /\ subtasks[s].assigned_to /= NoId

\* A request has committed its claim and is about to answer, while a second
\* request for the same subtask, arrived while it was available, is at its SELECT.
C2_Witness ==
    \E p, q \in Procs :
        /\ p /= q
        /\ req[p].pc = "read"
        /\ req[p].subtaskId \in DOMAIN subtasks
        /\ subtasks[req[p].subtaskId].assigned_to = req[p].userId
        /\ subtasks[req[p].subtaskId].status = "taken"
        /\ req[q].pc = "select" /\ req[q].subtaskId = req[p].subtaskId /\ req[q].avail

\* C3: a takeSubtask request (with a userId) that reads a subtask whose status is
\* assigned, taken or completed is answered 400, and one whose subtask id is no
\* row's is answered 404; such a request rolls back (it never reaches COMMIT and
\* holds no lock once answered), and no step of a request other than a COMMIT
\* changes any subtask row.
C3_TakeRefused ==
    /\ [](\A p \in Procs :
            /\ (req[p].pc = "done" /\ req[p].userId /= NoId) =>
                /\ req[p].subtaskId \notin DOMAIN subtasks =>
                        req[p].code = 404 /\ ~ req[p].found
                /\ (req[p].found /\ req[p].status \in {"assigned", "taken", "completed"}) =>
                        req[p].code = 400
                /\ \A s \in DOMAIN lock : lock[s] /= p
            /\ req[p].pc = "commit" => (req[p].found /\ req[p].status = "available"))
    /\ [][\A p \in Procs :
            (req'[p] /= req[p] /\ req[p].pc /= "commit") => subtasks' = subtasks]_vars

\* Answered 400 for a completed subtask and 404 for an id that is no row's.
C3_Witness ==
    \E p, q \in Procs :
        /\ req[p].pc = "done" /\ req[p].code = 400
        /\ req[p].found /\ req[p].status = "completed"
        /\ req[q].pc = "done" /\ req[q].code = 404
        /\ req[q].subtaskId \notin DOMAIN subtasks

(***************************************************************************)
(* Claims about membership and registration (checked under SpecAuth).      *)
(***************************************************************************)
\* C4 (as claimed): in every step, a user's status changes only along
\* pending -> approved, pending -> rejected or rejected -> approved.
C4_OnlyClaimedTransitions ==
    [][\A u \in DOMAIN users :
        (u \in DOMAIN users' /\ users'[u].status /= users[u].status) =>
            <<users[u].status, users'[u].status>> \in
                {<<"pending", "approved">>, <<"pending", "rejected">>,
                 <<"rejected", "approved">>}]_vars

\* C5 (as claimed): right after a successful approveMember, a second approveMember
\* for a member it has approved, with the member's team code, is answered 404
\* and changes nothing.
C5_SecondApproveAlreadyProcessed ==
    (last.op = "approveMember" /\ last.code = 200) =>
        \A u \in DOMAIN users, a \in UserIds :
            (users[u].role = "member" /\ users[u].status = "approved") =>
                LET r == approveMember(u, users[u].team_code, a)
                IN  r.code = 404 /\ r.db = Db

\* C6 (as claimed): a step of approveMember, rejectMember or reApprove changes a
\* user's status only if the actor it records (approved_by, rejected_by) is a
\* leader of that user's team.
C6_OnlyTeamLeaderActs ==
    [][\A u \in DOMAIN users :
        (u \in DOMAIN users' /\ users'[u].status /= users[u].status) =>
            LET a == IF users'[u].status = "approved" THEN users'[u].approved_by
                     ELSE users'[u].rejected_by
            IN  /\ a \in DOMAIN users
                /\ users[a].role = "leader"
                /\ users[a].team_code = users[u].team_code]_vars

\* The three membership transitions, by name.
Transition(op, userId, teamCode, actor) ==
    CASE op = "approveMember" -> approveMember(userId, teamCode, actor)
      [] op = "rejectMember" -> rejectMember(userId, teamCode, actor)
      [] op = "reApprove" -> approveRejectedMember(userId, teamCode, actor)

\* C7: in every reachable state and for every call of approveMember, rejectMember
\* or reApprove with its three fields present: if the named user is no member of
\* the named team (no such id, a leader, another team code) the call is answered
\* 404 and the tables are unchanged; the only row a call changes is the named
\* user's, and then that user is a member of the named team; and reApprove changes
\* a row only if its status is rejected (404 and nothing changed otherwise).
C7_TransitionsGuardedByRoleAndTeam ==
    \A op \in {"approveMember", "rejectMember", "reApprove"} :
    \A u \in UserIds, c \in TeamCodes, a \in UserIds :
        LET r == Transition(op, u, c, a)
            member == /\ u \in DOMAIN users
                      /\ users[u].role = "member"
                      /\ users[u].team_code = c
        IN  /\ ~ member => (r.code = 404 /\ r.db = Db)
            /\ DOMAIN r.db.users = DOMAIN users
            /\ \A i \in DOMAIN users : r.db.users[i] /= users[i] => (i = u /\ member)
            /\ [r.db EXCEPT !.users = users] = Db
            /\ op = "reApprove" =>
                /\ r.db /= Db => users[u].status = "rejected"
                /\ (member /\ users[u].status /= "rejected") => (r.code = 404 /\ r.db = Db)

\* A transition was just answered 404 although a member and a leader exist: the
\* call named a leader, another team or an id that is no row's.
C7_Witness ==
    /\ last.op \in {"approveMember", "rejectMember", "reApprove"}
    /\ last.code = 404
    /\ \E i, j \in DOMAIN users :
        /\ users[i].role = "leader"
        /\ users[j].role = "member" /\ users[j].status = "pending"

\* C8: registerLeader is all-or-nothing.  In every reachable state, every leader
\* row is approved and has the team row of its team code, with leader_id pointing
\* at it, and every team row has such a leader row; and every call either is
\* answered 200 and adds exactly the leader row and the team row, or is answered
\* with an error and leaves users and teams unchanged, the call whose team
\* INSERT fails on a team code in use after its user INSERT succeeded included.
C8_RegisterLeaderAllOrNothing ==
    /\ \A i \in DOMAIN users :
        users[i].role = "leader" =>
            /\ users[i].status = "approved"
            /\ users[i].team_code \in DOMAIN teams
            /\ teams[users[i].team_code].leader_id = i
    /\ \A c \in DOMAIN teams :
        /\ teams[c].leader_id \in DOMAIN users
        /\ users[teams[c].leader_id].role = "leader"
        /\ users[teams[c].leader_id].team_code = c
    /\ \A e \in Emails, c \in TeamCodes :
        LET r == registerLeader(e, c)
        IN  IF r.code = 200
            THEN /\ DOMAIN r.db.users = DOMAIN users \cup {nextUserId}
                 /\ nextUserId \notin DOMAIN users
                 /\ \A i \in DOMAIN users : r.db.users[i] = users[i]
                 /\ r.db.users[nextUserId] = UserRow(e, "leader", c, "approved")
                 /\ c \notin DOMAIN teams
                 /\ DOMAIN r.db.teams = DOMAIN teams \cup {c}
                 /\ \A t \in DOMAIN teams : r.db.teams[t] = teams[t]
                 /\ r.db.teams[c].leader_id = nextUserId
            ELSE /\ r.db.users = users
                 /\ r.db.teams = teams
                 /\ (c \in DOMAIN teams /\ \A i \in DOMAIN users : users[i].email /= e)
                        => r.code = 500

\* A registerLeader whose team INSERT failed: answered 500, its user id used up,
\* no row of it left, beside a leader registered before it.
C8_Witness ==
    /\ last.op = "registerLeader" /\ last.code = 500
    /\ nextUserId - 1 \notin DOMAIN users
    /\ \E i \in DOMAIN users : users[i].role = "leader"

\* C9 (as claimed): registerLeader and registerMember called with an email that
\* already belongs to a user are answered 400 'User already exists' and change
\* nothing.
C9_DuplicateEmailAlwaysConflict ==
    \A e \in Emails, c \in TeamCodes :
        (\E i \in DOMAIN users : users[i].email = e) =>
            /\ registerLeader(e, c) = Reply(Db, 400, "User already exists")
            /\ registerMember(e, c) = Reply(Db, 400, "User already exists")

\* C9 (amended): registerLeader called with an email that already belongs to a
\* user, and registerMember called with such an email and the code of an
\* existing team, are answered 400 'User already exists' and change nothing;
\* registerMember with a team code no team has is answered 400 'Invalid team
\* code' and changes nothing, whatever the email.
C9_DuplicateEmailConflict ==
    \A e \in Emails, c \in TeamCodes :
        (\E i \in DOMAIN users : users[i].email = e) =>
            /\ registerLeader(e, c) = Reply(Db, 400, "User already exists")
            /\ c \in DOMAIN teams =>
                    registerMember(e, c) = Reply(Db, 400, "User already exists")
            /\ c \notin DOMAIN teams =>
                    registerMember(e, c) = Reply(Db, 400, "Invalid team code")

\* A registration was just refused with 'User already exists'.
C9_Witness ==
    /\ last.op \in {"registerLeader", "registerMember"}
    /\ last.code = 400 /\ last.error = "User already exists"
    /\ users /= EmptyTable

\* What C10 says of a registerMember call that succeeds, and of any that fails.
RegisterMemberFrame(e, c) ==
    LET r == registerMember(e, c)
    IN  /\ r.db.teams = teams /\ r.db.tasks = tasks /\ r.db.subtasks = subtasks
        /\ IF r.code = 200
           THEN /\ c \in DOMAIN teams
                /\ nextUserId \notin DOMAIN users
                /\ DOMAIN r.db.users = DOMAIN users \cup {nextUserId}
                /\ \A i \in DOMAIN users : r.db.users[i] = users[i]
                /\ r.db.users[nextUserId] = UserRow(e, "member", c, "pending")
           ELSE r.db.users = users

C11_LoginOnlyForApproved ==
    \A e \in Emails, w \in Passwords, c \in CodeArgs :
        LET r == login(e, w, c)
            rows == {i \in DOMAIN users : users[i].email = e /\ users[i].team_code = c}
            match == {i \in rows : users[i].password = bcryptHash(w)}
            allowed == {i \in match : \/ users[i].role = "leader"
                                      \/ users[i].role = "member"
                                         /\ users[i].status = "approved"}
        IN  /\ r.db = Db
            /\ r.code = 200 <=> allowed /= {}
            /\ r.code = 200 => \E i \in allowed :
                    r.token = [userId |-> i, email |-> e, role |-> users[i].role]
            /\ r.code /= 200 => r.token = NoToken
            /\ (w /= NoCode /\ match = {}) =>
                    (r.code = 401 /\ r.error = "Invalid credentials")
            /\ \A i \in match :
                users[i].role = "member" =>
                    /\ users[i].status = "pending" =>
                        /\ r.code = 403
                        /\ r.error = "Your membership is pending approval from the team leader"
                    /\ users[i].status = "rejected" =>
                        /\ r.code = 403
                        /\ r.error /= "Your membership is pending approval from the team leader"
                        /\ r.error /= "" /\ r.error /= "Invalid credentials"

\* A login was just refused with the 403 of a rejected member, in a state with a
\* rejected member.
C11_Witness ==
    /\ last.op = "login" /\ last.code = 403
    /\ last.error = "Your membership request was rejected. Please contact your team leader."
    /\ \E i \in DOMAIN users : users[i].role = "member" /\ users[i].status = "rejected"

C13_CanLoginIffLoginSucceeds ==
    \A e \in {NoCode} \cup Emails, c \in CodeArgs :
        LET r == checkMemberStatus(e, c)
        IN  /\ r.db = Db
            /\ r.canLogin <=> \E w \in Passwords : login(e, w, c).code = 200
            /\ r.canLogin <=>
                \E i \in DOMAIN users :
                    /\ users[i].email = e /\ users[i].team_code = c
                    /\ \/ users[i].role = "leader"
                       \/ users[i].role = "member" /\ users[i].status = "approved"

\* checkMemberStatus just answered for a rejected member.
C13_Witness ==
    /\ last.op = "checkMemberStatus" /\ last.code = 200
    /\ last.error = "Membership request rejected"
    /\ \E i \in DOMAIN users : users[i].role = "member" /\ users[i].status = "rejected"

(***************************************************************************)
(* Claims about deleting users (C14, C15 under SpecTasks, C16 under        *)
(* SpecAuth).                                                              *)
(***************************************************************************)
\* C14: in every reachable state and for every deleteTeamMember(teamCode,
\* memberId, leaderId): a user row is removed only if leaderId is a leader whose
\* team_code is teamCode, memberId is another id, and memberId is a member of that
\* team, and then the row removed is memberId's; a leaderId that is no leader of
\* that team is answered 403, a leader naming itself 400, a leader naming an id
\* that is no member of its team 404 (a request without leaderId 400); and every
\* call not answered 200 leaves every user and every subtask as it was.
C14_DeleteMemberGuards ==
    \A c \in TeamCodes, m \in TakeUserArgs \ {NoId}, l \in TakeUserArgs :
        LET r == deleteTeamMember(c, m, l)
            leaderOk == /\ l \in DOMAIN users
                        /\ users[l].role = "leader"
                        /\ users[l].team_code = c
            memberOk == /\ m \in DOMAIN users
                        /\ users[m].role = "member"
                        /\ users[m].team_code = c
        IN  /\ r.db.users /= users =>
                /\ leaderOk /\ m /= l /\ memberOk
                /\ r.code = 200
                /\ r.db.users = [i \in DOMAIN users \ {m} |-> users[i]]
            /\ l = NoId => r.code = 400
            /\ (l /= NoId /\ ~ leaderOk) =>
                    r = Reply(Db, 403, "Only team leader can delete members")
            /\ (leaderOk /\ m = l) => r = Reply(Db, 400, "Cannot delete yourself")
            /\ (leaderOk /\ m /= l /\ ~ memberOk) =>
                    r = Reply(Db, 404, "Member not found in your team")
            /\ r.code /= 200 => (r.db.users = users /\ r.db.subtasks = subtasks)

\* A deleteTeamMember was just answered 403, and the member still is there with a
\* subtask assigned to it.
C14_Witness ==
    /\ last.op = "deleteTeamMember" /\ last.code = 403
    /\ 2 \in DOMAIN users
    /\ \E s \in DOMAIN subtasks : subtasks[s].assigned_to = 2

\* C15: in every reachable state and for every deleteTeamMember call: if it is
\* answered 200, the member's row is gone, every subtask that was assigned to the
\* member has assigned_to null and status available, and every other subtask is
\* as it was; if it is not answered 200, users and subtasks are as they were; a
\* call that passes the checks is answered 200 unless a row other than a subtask
\* (a task's created_by, a user's approved_by or rejected_by) still references
\* the member, and then it is answered 500 with the release undone.
C15_DeleteReleasesSubtasks ==
    \A c \in TeamCodes, m \in TakeUserArgs \ {NoId}, l \in TakeUserArgs :
        LET r == deleteTeamMember(c, m, l)
            pass == /\ l \in DOMAIN users /\ users[l].role = "leader"
                    /\ users[l].team_code = c
                    /\ m /= l
                    /\ m \in DOMAIN users /\ users[m].role = "member"
                    /\ users[m].team_code = c
            held == \/ \E t \in DOMAIN tasks : tasks[t].created_by = m
                    \/ \E i \in DOMAIN users \ {m} :
                            users[i].approved_by = m \/ users[i].rejected_by = m
        IN  /\ r.code = 200 =>
                /\ pass
                /\ m \notin DOMAIN r.db.users
                /\ DOMAIN r.db.subtasks = DOMAIN subtasks
                /\ \A s \in DOMAIN subtasks :
                    IF subtasks[s].assigned_to = m
                    THEN r.db.subtasks[s] = [subtasks[s] EXCEPT !.assigned_to = NoId,
                                                               !.status = "available"]
                    ELSE r.db.subtasks[s] = subtasks[s]
            /\ r.code /= 200 => (r.db.users = users /\ r.db.subtasks = subtasks)
            /\ (pass /\ ~ held) => r.code = 200
            /\ (pass /\ held) => r = Reply(Db, 500, "Internal server error")

\* A deleteTeamMember just succeeded: the member is gone and a subtask it worked
\* on (its progress is past not_started) is unassigned and available.
C15_Witness ==
    /\ last.op = "deleteTeamMember" /\ last.code = 200
    /\ 2 \notin DOMAIN users
    /\ \E s \in DOMAIN subtasks :
        /\ subtasks[s].assigned_to = NoId
        /\ subtasks[s].status = "available"
        /\ subtasks[s].progress /= "not_started"

\* C16: in every reachable state and for every deleteRejectedMember(userId): a
\* user row is removed only if userId is a member whose status is rejected, and
\* then exactly that row; called for a pending or approved member, for a leader
\* or for an id that is no user's, it is answered 404 and changes nothing.
C16_DeleteOnlyRejected ==
    \A u \in UserIds :
        LET r == deleteRejectedMember(u)
            rejected == /\ u \in DOMAIN users
                        /\ users[u].role = "member"
                        /\ users[u].status = "rejected"
        IN  /\ r.db /= Db =>
                /\ rejected
                /\ r.code = 200
                /\ r.db = [Db EXCEPT !.users = [i \in DOMAIN users \ {u} |-> users[i]]]
            /\ ~ rejected => r = Reply(Db, 404, "Rejected member not found")
            /\ r.code = 200 => (rejected /\ u \notin DOMAIN r.db.users)

\* A deleteRejectedMember was just answered 404 while the two users are a leader
\* and a member that is pending or approved.
C16_Witness ==
    /\ last.op = "deleteRejectedMember" /\ last.code = 404
    /\ \E i, j \in DOMAIN users :
        /\ users[i].role = "leader"
        /\ users[j].role = "member" /\ users[j].status \in {"pending", "approved"}
        /\ DOMAIN users = {i, j}

(***************************************************************************)
(* Claims about assigning and reporting progress (checked under SpecTasks).*)
(***************************************************************************)
\* C19: in every reachable state and for every assignSubtask(subtaskId, userId,
\* assignedBy) that carries both fields and names a user: if the subtask exists,
\* whatever its status and assignee, the call is answered 200 and the row gets
\* assigned_to = userId, status assigned, progress assigned, nothing else being
\* changed; the call is answered 404 exactly when it carries both fields and the
\* subtask does not exist; a call not answered 200 changes nothing.
C19_AssignOverwrites ==
    \A s \in TakeSubtaskArgs, u \in TakeUserArgs, a \in TakeUserArgs :
        LET r == assignSubtask(s, u, a)
        IN  /\ (s \in DOMAIN subtasks /\ u \in DOMAIN users /\ a /= NoId) =>
                /\ r.code = 200
                /\ r.db = [Db EXCEPT !.subtasks[s] =
                              [task_id |-> subtasks[s].task_id, assigned_to |-> u,
                               status |-> "assigned", progress |-> "assigned",
                               deadline |-> subtasks[s].deadline]]
            /\ r.code = 404 <=> (s \notin DOMAIN subtasks /\ u /= NoId /\ a /= NoId)
            /\ r.code /= 200 => r.db = Db

\* An assignSubtask just succeeded and a subtask that is not available any more
\* for the member (all rows start assigned to nobody or to the member, id 2) is
\* assigned to the leader.
C19_Witness ==
    /\ last.op = "assignSubtask" /\ last.code = 200
    /\ \E s \in DOMAIN subtasks :
        /\ subtasks[s].assigned_to = 1
        /\ subtasks[s].status = "assigned" /\ subtasks[s].progress = "assigned"

\* C20: in every reachable state and for every updateProgress(subtaskId,
\* progress, userId): the tables change only if the caller is a user who is the
\* subtask's assignee, the creator of its task, or a leader whose team_code is
\* the task's; a call with both fields for an existing subtask by any other
\* caller is answered 403 and changes nothing; and an authorized call with a
\* progress value of the schema is answered 200.
C20_ProgressAuthorization ==
    \A s \in TakeSubtaskArgs, g \in ProgressArgs, u \in TakeUserArgs :
        LET r == updateProgress(s, g, u)
            authorized ==
                /\ s \in DOMAIN subtasks
                /\ u \in DOMAIN users
                /\ \/ subtasks[s].assigned_to = u
                   \/ tasks[subtasks[s].task_id].created_by = u
                   \/ /\ users[u].role = "leader"
                      /\ users[u].team_code = tasks[subtasks[s].task_id].team_code
        IN  /\ r.db /= Db => authorized
            /\ (g /= NoCode /\ u /= NoId /\ s \in DOMAIN subtasks /\ ~ authorized) =>
                    (r.code = 403 /\ r.db = Db)
            /\ (authorized /\ g \in ProgressValues) =>
                    (r.code = 200 /\ r.db.subtasks[s].progress = g)

\* An updateProgress by an existing user was just refused for lack of authority.
C20_Witness ==
    /\ last.op = "updateProgress" /\ last.code = 403
    /\ last.error = "Not authorized to update this subtask"
    /\ subtasks /= EmptyTable

(***************************************************************************)
(* Claims about createTask (checked under SpecCreate).                     *)
(***************************************************************************)
\* What C18 says a subtask of a createTask request starts as.
StartsAs(taskId, assignedTo, assignSpecific) ==
    IF assignSpecific /\ assignedTo /= NoId
    THEN [task_id |-> taskId, assigned_to |-> assignedTo, status |-> "assigned",
          progress |-> "assigned", deadline |-> NoCode]
    ELSE [task_id |-> taskId, assigned_to |-> NoId, status |-> "available",
          progress |-> "not_started", deadline |-> NoCode]

\* C17: as long as a createTask request has not committed, and after it was
\* answered with an error (an INSERT of a subtask failed after the task and
\* earlier subtasks were inserted: ROLLBACK), neither its task nor any of its
\* subtasks is in the tables the other requests read; once it has committed, its
\* task is there with as many subtasks as the request carried.  No task is ever
\* readable without subtasks, no subtask without its task, and the only step
\* that changes the tables is a COMMIT, which adds the task and all its subtasks
\* at once.
C17_CreateTaskAtomic ==
    /\ [](/\ (\/ creating.pc \in {"begin", "task", "subtask", "commit", "rollback"}
              \/ creating.pc = "done" /\ creating.code /= 200) =>
                \/ creating.taskId = NoId
                \/ /\ getTaskWithSubtasks(creating.taskId) = <<>>
                   /\ getSubtasksForTask(creating.taskId) = {}
          /\ (\/ creating.pc = "read"
              \/ creating.pc = "done" /\ creating.code = 200) =>
                /\ getTaskWithSubtasks(creating.taskId) /= <<>>
                /\ Cardinality(getSubtasksForTask(creating.taskId)) = Len(creating.subs)
          /\ \A t \in DOMAIN tasks : getSubtasksForTask(t) /= {}
          /\ \A s \in DOMAIN subtasks : subtasks[s].task_id \in DOMAIN tasks)
    /\ [][(tasks' /= tasks \/ subtasks' /= subtasks) =>
            /\ creating.pc = "commit"
            /\ DOMAIN tasks' = DOMAIN tasks \cup {creating.taskId}
            /\ creating.taskId \notin DOMAIN tasks
            /\ \A t \in DOMAIN tasks : tasks'[t] = tasks[t]
            /\ \A s \in DOMAIN subtasks : s \in DOMAIN subtasks' /\ subtasks'[s] = subtasks[s]
            /\ Cardinality(DOMAIN subtasks' \ DOMAIN subtasks) = Len(creating.subs)
            /\ \A s \in DOMAIN subtasks' \ DOMAIN subtasks :
                    subtasks'[s].task_id = creating.taskId]_vars

\* A createTask was just answered 500 after its task and a subtask had been
\* inserted: no row of it is in the tables.
C17_Witness ==
    /\ creating.pc = "done" /\ creating.code = 500
    /\ creating.taskId /= NoId /\ creating.inserted >= 1
    /\ creating.taskId \notin DOMAIN tasks
    /\ last.op = "createTask" /\ last.code = 500

\* C18: every row a createTask request inserts for a subtask, and every row its
\* COMMIT adds to the subtasks table, has status assigned, progress assigned and
\* assigned_to the given assignee when assignSpecific is set and the subtask
\* names an assignee, and has status available, progress not_started and
\* assigned_to null otherwise (also for an assignee given without assignSpecific).
C18_SubtaskStartState ==
    /\ \A t \in 1..MaxTasks, a \in Assignees, f \in BOOLEAN :
            NewSubtaskRow(t, a, f) = StartsAs(t, a, f)
    /\ \A k \in 1..Len(creating.rows) :
        /\ creating.rows[k].row =
                StartsAs(creating.taskId, creating.subs[k], creating.assignSpecific)
        /\ creating.pc \in {"read", "done"} =>
            /\ creating.rows[k].id \in DOMAIN subtasks
            /\ subtasks[creating.rows[k].id] =
                    StartsAs(creating.taskId, creating.subs[k], creating.assignSpecific)
    /\ (creating.pc \in {"read", "done"} /\ creating.code \in {0, 200}) =>
            Len(creating.rows) = Len(creating.subs)

\* A createTask without assignSpecific, carrying a subtask that names the member,
\* was just answered 200: the subtask's row is available and unassigned.
C18_Witness ==
    /\ creating.pc = "done" /\ creating.code = 200 /\ ~ creating.assignSpecific
    /\ \E k \in 1..Len(creating.rows) :
        /\ creating.subs[k] = 2
        /\ subtasks[creating.rows[k].id].status = "available"
        /\ subtasks[creating.rows[k].id].assigned_to = NoId

(***************************************************************************)
(* Claims about the effect of updateProgress and editSubtask (checked      *)
(* under SpecTasks).                                                       *)
(***************************************************************************)
\* C21: in every reachable state, an updateProgress(subtaskId, progress, userId)
\* by an authorized caller with a progress value of the schema, served on its
\* own, is answered 200 and changes exactly the subtask's progress, to the given
\* value, and its status: completed if progress is completed, taken if progress
\* is in_progress and the status was assigned, the previous status otherwise.  No
\* updateProgress call, whatever its answer, changes any assigned_to.
C21_ProgressSetsStatus ==
    \A s \in TakeSubtaskArgs, g \in ProgressArgs, u \in TakeUserArgs :
        LET r == updateProgress(s, g, u)
            authorized ==
                /\ s \in DOMAIN subtasks
                /\ u \in DOMAIN users
                /\ \/ subtasks[s].assigned_to = u
                   \/ tasks[subtasks[s].task_id].created_by = u
                   \/ /\ users[u].role = "leader"
                      /\ users[u].team_code = tasks[subtasks[s].task_id].team_code
            status == IF g = "completed" THEN "completed"
                      ELSE IF g = "in_progress" /\ subtasks[s].status = "assigned"
                      THEN "taken"
                      ELSE subtasks[s].status
        IN  /\ (authorized /\ g \in ProgressValues) =>
                /\ r.code = 200
                /\ r.db = [Db EXCEPT !.subtasks[s] =
                              [task_id |-> subtasks[s].task_id,
                               assigned_to |-> subtasks[s].assigned_to,
                               status |-> status, progress |-> g,
                               deadline |-> subtasks[s].deadline]]
            /\ DOMAIN r.db.subtasks = DOMAIN subtasks
            /\ \A i \in DOMAIN subtasks :
                    r.db.subtasks[i].assigned_to = subtasks[i].assigned_to

\* An updateProgress just succeeded, and a subtask is in testing with the status
\* (assigned) it had before: a progress value that leaves the status alone.
C21_Witness ==
    /\ last.op = "updateProgress" /\ last.code = 200
    /\ \E s \in DOMAIN subtasks :
        subtasks[s].progress = "testing" /\ subtasks[s].status = "assigned"

\* C22: in every reachable state, for a subtask of any status (available,
\* assigned, taken, completed), an updateProgress with progress = completed by an
\* authorized caller is answered 200 and leaves the subtask with status
\* completed (and progress completed).
C22_CompletedAlwaysCompletes ==
    /\ \A i \in DOMAIN subtasks :
            subtasks[i].status \in {"available", "assigned", "taken", "completed"}
    /\ \A s \in DOMAIN subtasks, u \in DOMAIN users :
        LET r == updateProgress(s, "completed", u)
        IN  (\/ subtasks[s].assigned_to = u
             \/ tasks[subtasks[s].task_id].created_by = u
             \/ /\ users[u].role = "leader"
                /\ users[u].team_code = tasks[subtasks[s].task_id].team_code) =>
                /\ r.code = 200
                /\ r.db.subtasks[s].status = "completed"
                /\ r.db.subtasks[s].progress = "completed"

\* An updateProgress just succeeded and a subtask nobody is assigned to, while
\* the member still exists, is completed: it was available when it was completed.
C22_Witness ==
    /\ last.op = "updateProgress" /\ last.code = 200
    /\ 2 \in DOMAIN users
    /\ \E s \in DOMAIN subtasks :
        /\ subtasks[s].status = "completed" /\ subtasks[s].progress = "completed"
        /\ subtasks[s].assigned_to = NoId

\* C23: in every reachable state, an editSubtask by an authorized caller (the
\* task's creator or a leader of the task's team) that carries a title, for a
\* subtask of any status and progress: if it carries an assignee (a user), the
\* row gets assigned_to = that user, status assigned, progress assigned;
\* otherwise it gets assigned_to null, status available, progress not_started,
\* also when the assignee it carries is the one the row already had.
C23_EditResetsProgress ==
    \A s \in DOMAIN subtasks, a \in {NoId} \cup DOMAIN users, u \in DOMAIN users :
        LET r == editSubtask(s, "title", a, u)
            task == tasks[subtasks[s].task_id]
        IN  (\/ task.created_by = u
             \/ users[u].role = "leader" /\ users[u].team_code = task.team_code) =>
                /\ r.code = 200
                /\ r.db = [Db EXCEPT !.subtasks[s] =
                              IF a /= NoId
                              THEN [task_id |-> subtasks[s].task_id, assigned_to |-> a,
                                    status |-> "assigned", progress |-> "assigned",
                                    deadline |-> subtasks[s].deadline]
                              ELSE [task_id |-> subtasks[s].task_id, assigned_to |-> NoId,
                                    status |-> "available", progress |-> "not_started",
                                    deadline |-> subtasks[s].deadline]]

\* An editSubtask just succeeded where a progress report had been refused or
\* made before; the subtask is back to not_started or assigned.
C23_Witness ==
    /\ last.op = "editSubtask" /\ last.code = 200
    /\ \E s \in DOMAIN subtasks :
        \/ /\ subtasks[s].status = "available" /\ subtasks[s].progress = "not_started"
           /\ subtasks[s].assigned_to = NoId
        \/ /\ subtasks[s].status = "assigned" /\ subtasks[s].progress = "assigned"
           /\ subtasks[s].assigned_to \in DOMAIN users

(***************************************************************************)
(* Claims about editing, deleting and listing (checked under SpecEdit).    *)
(***************************************************************************)
\* The caller may change the task: the user is its creator, or a leader whose
\* team_code is the task's.
MayChange(task, u) ==
    \/ task.created_by = u
    \/ users[u].role = "leader" /\ users[u].team_code = task.team_code

\* C24: in every reachable state, editTask, editSubtask, deleteTask and
\* deleteSubtask change the tables only when the caller is a user who is the
\* creator of the (owning) task or a leader whose team_code equals the task's
\* team_code; for an existing task or subtask every other caller is answered 403
\* and every row is unchanged, and such a caller, given a title, is answered 200
\* and the edit or the delete is done.
C24_EditDeleteAuthorization ==
    /\ \A t \in DOMAIN tasks, u \in TakeUserArgs \ {NoId}, x \in EditTitleArgs :
        LET e == editTask(t, x, u)
            d == deleteTask(t, u)
        IN  IF u \in DOMAIN users /\ MayChange(tasks[t], u)
            THEN /\ d.code = 200 /\ t \notin DOMAIN d.db.tasks
                 /\ x /= NoCode => e.code = 200 /\ e.db.tasks[t].title = x
            ELSE /\ e.code = 403 /\ e.db = Db
                 /\ d.code = 403 /\ d.db = Db
    /\ \A s \in DOMAIN subtasks, u \in TakeUserArgs \ {NoId}, a \in {NoId, 2} :
        LET e == editSubtask(s, "title", a, u)
            d == deleteSubtask(s, u)
        IN  IF u \in DOMAIN users /\ MayChange(tasks[subtasks[s].task_id], u)
            THEN /\ d.code = 200 /\ s \notin DOMAIN d.db.subtasks
                 /\ e.code = 200
            ELSE /\ e.code = 403 /\ e.db = Db
                 /\ d.code = 403 /\ d.db = Db

\* A delete by a user who is neither the creator nor a leader of the task's
\* team was just refused, after an edit had changed the title of a task that is
\* still there.
C24_Witness ==
    /\ last.op \in {"deleteTask", "deleteSubtask"}
    /\ last.code = 403 /\ last.error /= "User not found"
    /\ \E t \in DOMAIN tasks : tasks[t].title = "edited"

C25_NoOrphanSubtasks ==
    /\ \A s \in DOMAIN subtasks : subtasks[s].task_id \in DOMAIN tasks
    /\ creating.pc \in {"subtask", "commit", "rollback"} =>
            \A k \in 1..Len(creating.rows) :
                /\ creating.task /= <<>>
                /\ creating.rows[k].row.task_id = creating.taskId
    /\ \A t \in LifeTaskArgs, u \in 1..3 :
        LET d == deleteTask(t, u)
        IN  /\ \A s \in DOMAIN d.db.subtasks :
                    d.db.subtasks[s].task_id \in DOMAIN d.db.tasks
            /\ d.code = 200 =>
                /\ DOMAIN d.db.tasks = DOMAIN tasks \ {t}
                /\ DOMAIN d.db.subtasks = {s \in DOMAIN subtasks : subtasks[s].task_id /= t}
                /\ \A i \in DOMAIN d.db.tasks : d.db.tasks[i] = tasks[i]
                /\ \A s \in DOMAIN d.db.subtasks : d.db.subtasks[s] = subtasks[s]

\* A deleteTask just succeeded on a task that had been created with subtasks:
\* the sequence has handed out subtask ids, and no subtask is left.
C25_Witness ==
    /\ last.op = "deleteTask" /\ last.code = 200
    /\ nextSubtaskId > 1 /\ creating.pc = "done" /\ creating.code = 200
    /\ creating.taskId \notin DOMAIN tasks
    /\ subtasks = EmptyTable

(***************************************************************************)
(* Claims about leaders (checked under SpecAuth).                          *)
(***************************************************************************)
\* The leaders of the team with code c.
LeadersOf(c) == {u \in DOMAIN users : users[u].role = "leader" /\ users[u].team_code = c}

\* C27: in every reachable state, every team row has exactly one user with role
\* leader and its team_code, and the row's leader_id is that user: no sequence
\* of registrations, approvals, rejections and deletions creates a second
\* leader of a team or removes its leader.
C27_OneLeaderPerTeam ==
    \A c \in DOMAIN teams :
        /\ teams[c].leader_id \in DOMAIN users
        /\ LeadersOf(c) = {teams[c].leader_id}

\* A registerLeader that drew the code of the existing team was just answered
\* 500: the team still has its one leader and there is no other user.
C27_Witness ==
    /\ last.op = "registerLeader" /\ last.code = 500
    /\ Cardinality(DOMAIN teams) = 1
    /\ Cardinality(DOMAIN users) = 1

\* C28: in every reachable state, every user with role leader has status
\* approved, and no approveMember, rejectMember or approveRejectedMember
\* naming a leader, whatever team code and actor it carries, changes any row:
\* it is answered 400 or 404.
C28_LeaderAlwaysApproved ==
    /\ \A u \in DOMAIN users : users[u].role = "leader" => users[u].status = "approved"
    /\ \A u \in DOMAIN users, c \in CodeArgs, a \in IdArgs :
        users[u].role = "leader" =>
            /\ approveMember(u, c, a).db = Db
            /\ rejectMember(u, c, a).db = Db
            /\ approveRejectedMember(u, c, a).db = Db
            /\ approveMember(u, c, a).code \in {400, 404}
            /\ rejectMember(u, c, a).code \in {400, 404}
            /\ approveRejectedMember(u, c, a).code \in {400, 404}

\* A rejectMember was just answered 404 while every user is a leader, each of
\* them approved.
C28_Witness ==
    /\ last.op = "rejectMember" /\ last.code = 404
    /\ DOMAIN users /= {}
    /\ \A u \in DOMAIN users : users[u].role = "leader" /\ users[u].status = "approved"

(***************************************************************************)
(* Claims about error answers of the transactions (checked under           *)
(* SpecFault).                                                             *)
(***************************************************************************)
\* C29: whenever createTask or takeSubtask answers with an error (a code of 400
\* or more), none of its writes are in the tables: the task of the createTask
\* and its subtasks are not there, and the subtask is not taken by the user of
\* the takeSubtask; a failing read after COMMIT included.
C29_ErrorMeansNothingPersisted ==
    [][/\ (creating.pc /= "done" /\ creating'.pc = "done" /\ creating'.code >= 400) =>
            /\ creating.taskId \notin DOMAIN tasks'
            /\ \A s \in DOMAIN subtasks' : subtasks'[s].task_id /= creating.taskId
       /\ \A p \in Procs :
            (req[p].pc /= "done" /\ req'[p].pc = "done" /\ req'[p].code >= 400) =>
                ~ /\ req[p].subtaskId \in DOMAIN subtasks'
                  /\ subtasks'[req[p].subtaskId].assigned_to = req[p].userId
                  /\ subtasks'[req[p].subtaskId].status = "taken"]_vars

(***************************************************************************)
(* Claims about progress reports racing other writers (checked under       *)
(* SpecRace).                                                              *)
(***************************************************************************)
\* C30: in every state reachable by interleaving the queries of updateProgress
\* with takeSubtask, assignSubtask, editSubtask and deleteTeamMember on the same
\* subtask, a subtask with status available has assigned_to null and a subtask
\* with status assigned or taken has the id of a user in assigned_to.
C30_StatusMatchesAssignee ==
    \A s \in DOMAIN subtasks :
        /\ subtasks[s].status = "available" => subtasks[s].assigned_to = NoId
        /\ subtasks[s].status \in {"assigned", "taken"} =>
                subtasks[s].assigned_to \in DOMAIN users

(***************************************************************************)
(* Claims about the pairing of status and progress (checked under          *)
(* SpecTasks).                                                             *)
(***************************************************************************)
\* C31: in every state reached by assignSubtask, updateProgress, editSubtask and
\* deleteTeamMember calls served one at a time from tables as createTask and
\* takeSubtask leave them, a subtask has status completed if and only if its
\* progress is completed.
C31_CompletedIffCompleted ==
    \A s \in DOMAIN subtasks :
        subtasks[s].status = "completed" <=> subtasks[s].progress = "completed"

(***************************************************************************)
(* Claims about references to users (checked under SpecRefs).              *)
(***************************************************************************)
\* C32: in every reachable state, each subtask's assigned_to is null or the id
\* of a user and each task's created_by is the id of a user; a
\* deleteRejectedMember of a user that a subtask or a task references, and a
\* deleteTeamMember of a user that a task references, is not answered 200 (it
\* is answered 500 when the user is one the handler would delete) and leaves
\* users, tasks and subtasks unchanged.
C32_ReferencedUsersStay ==
    /\ \A s \in DOMAIN subtasks :
            subtasks[s].assigned_to = NoId \/ subtasks[s].assigned_to \in DOMAIN users
    /\ \A t \in DOMAIN tasks : tasks[t].created_by \in DOMAIN users
    /\ \A u \in 1..3 :
        LET r == deleteRejectedMember(u)
        IN  (\/ \E s \in DOMAIN subtasks : subtasks[s].assigned_to = u
             \/ \E t \in DOMAIN tasks : tasks[t].created_by = u) =>
                /\ r.code /= 200
                /\ r.db.users = users /\ r.db.tasks = tasks /\ r.db.subtasks = subtasks
                /\ (u \in DOMAIN users /\ users[u].status = "rejected"
                        /\ users[u].role = "member") => r.code = 500
    /\ \A m \in 1..3, l \in 1..2 :
        LET r == deleteTeamMember(TakeTeam, m, l)
        IN  (\E t \in DOMAIN tasks : tasks[t].created_by = m) =>
                /\ r.code /= 200
                /\ r.db.users = users /\ r.db.tasks = tasks /\ r.db.subtasks = subtasks
                /\ (m \in DOMAIN users /\ users[m].role = "member" /\ l = 1) => r.code = 500

\* A deleteRejectedMember was just answered 500: the rejected member is still a
\* user, and a subtask or a task references it.
C32_Witness ==
    /\ last.op = "deleteRejectedMember" /\ last.code = 500
    /\ 2 \in DOMAIN users /\ users[2].status = "rejected"
    /\ \/ \E s \in DOMAIN subtasks : subtasks[s].assigned_to = 2
       \/ \E t \in DOMAIN tasks : tasks[t].created_by = 2

\* C33: in every reachable state, the user a subtask is assigned to has the
\* team_code of the subtask's task and is a leader or an approved member.
C33_AssigneeInTeamAndApproved ==
    \A s \in DOMAIN subtasks :
        (subtasks[s].assigned_to /= NoId /\ subtasks[s].assigned_to \in DOMAIN users) =>
            LET user == users[subtasks[s].assigned_to]
            IN  /\ user.team_code = tasks[subtasks[s].task_id].team_code
                /\ user.role = "leader" \/ user.status = "approved"

(***************************************************************************)
(* Claims about the status listing as the router serves it (checked under  *)
(* SpecList).                                                              *)
(***************************************************************************)
\* C35: in every reachable state, the listing the router serves for completed
\* contains a task if and only if it is of the team and at least one of its
\* subtasks is completed; the listing it serves for active is the one of the
\* first registered handler (a task of the team with a subtask that is not
\* completed); so a task without subtasks is in neither listing, and a task with
\* a completed and an uncompleted subtask is in both.
C35_EmptyTaskInNoListing ==
    \A c \in TeamCodes :
        /\ getTasksByStatus(c, "completed") =
                {t \in DOMAIN tasks :
                    /\ tasks[t].team_code = c
                    /\ \E s \in DOMAIN subtasks :
                        subtasks[s].task_id = t /\ subtasks[s].status = "completed"}
        /\ getTasksByStatus(c, "active") =
                {t \in DOMAIN tasks :
                    /\ tasks[t].team_code = c
                    /\ \E s \in DOMAIN subtasks :
                        subtasks[s].task_id = t /\ subtasks[s].status /= "completed"}
        /\ \A t \in DOMAIN tasks :
            /\ (\A s \in DOMAIN subtasks : subtasks[s].task_id /= t) =>
                    /\ t \notin getTasksByStatus(c, "active")
                    /\ t \notin getTasksByStatus(c, "completed")
            /\ (/\ tasks[t].team_code = c
                /\ \E s1, s2 \in DOMAIN subtasks :
                    /\ subtasks[s1].task_id = t /\ subtasks[s1].status = "completed"
                    /\ subtasks[s2].task_id = t /\ subtasks[s2].status /= "completed") =>
                    /\ t \in getTasksByStatus(c, "active")
                    /\ t \in getTasksByStatus(c, "completed")

\* A listing was just served after a deleteSubtask left a task of the team
\* without subtasks, while the other task, of the same team, has a completed and
\* an uncompleted subtask and is in both listings.
C35_Witness ==
    /\ last.op = "listByStatus"
    /\ Cardinality(DOMAIN subtasks) = 2
    /\ \E t, o \in DOMAIN tasks :
        /\ tasks[t].team_code = TakeTeam /\ tasks[o].team_code = TakeTeam
        /\ \A s \in DOMAIN subtasks : subtasks[s].task_id = o
        /\ t /= o
        /\ t \notin getTasksByStatus(TakeTeam, "active")
        /\ t \notin getTasksByStatus(TakeTeam, "completed")
        /\ o \in getTasksByStatus(TakeTeam, "active")
        /\ o \in getTasksByStatus(TakeTeam, "completed")

(***************************************************************************)
(* Claims about the values of status and progress (checked under           *)
(* SpecTasks).                                                             *)
(***************************************************************************)
\* C36: in every reachable state, each subtask's status is one of available,
\* assigned, taken, completed and its progress one of not_started, assigned,
\* in_progress, testing, completed; an updateProgress carrying another progress
\* value is not answered 200 (500 for a caller allowed to update the subtask)
\* and leaves every subtask as it was.
C36_StatusAndProgressValues ==
    /\ \A s \in DOMAIN subtasks :
        /\ subtasks[s].status \in {"available", "assigned", "taken", "completed"}
        /\ subtasks[s].progress \in
                {"not_started", "assigned", "in_progress", "testing", "completed"}
    /\ \A s \in TakeSubtaskArgs, u \in TakeUserArgs :
        LET r == updateProgress(s, "bogus", u)
        IN  /\ r.code \in {400, 403, 404, 500}
            /\ r.db = Db
            /\ (/\ s \in DOMAIN subtasks
                /\ u \in DOMAIN users
                /\ \/ subtasks[s].assigned_to = u
                   \/ tasks[subtasks[s].task_id].created_by = u
                   \/ /\ users[u].role = "leader"
                      /\ users[u].team_code = tasks[subtasks[s].task_id].team_code)
                    => r.code = 500

\* An updateProgress was just answered 500 (the CHECK refused its value), after
\* an earlier one had moved a subtask to testing.
C36_Witness ==
    /\ last.op = "updateProgress" /\ last.code = 500
    /\ \E s \in DOMAIN subtasks : subtasks[s].progress = "testing"

(***************************************************************************)
(* Claims about updateDeadline (checked under SpecDeadline).               *)
(***************************************************************************)
\* C37: in every reachable state, an updateDeadline changes the database only
\* when its caller is a user with role leader, and then it changes only the
\* deadline of the subtask it names (status, progress and assigned_to of every
\* subtask stay); a caller who is a member or no user is answered 403 and
\* nothing changes; a leader of a team other than the task's, with a timestamp
\* and an existing subtask, is answered 200 and the deadline is set.
C37_DeadlineLeaderOnly ==
    \A s \in TakeSubtaskArgs, d \in DeadlineArgs, u \in 0..4 :
        LET r == updateDeadline(s, d, u)
            leader == u \in DOMAIN users /\ users[u].role = "leader"
        IN  /\ r.db /= Db => leader /\ r.code = 200
            /\ r.db = [Db EXCEPT !.subtasks = r.db.subtasks]
            /\ DOMAIN r.db.subtasks = DOMAIN subtasks
            /\ \A i \in DOMAIN subtasks :
                /\ r.db.subtasks[i] =
                        [subtasks[i] EXCEPT !.deadline = r.db.subtasks[i].deadline]
                /\ i /= s => r.db.subtasks[i] = subtasks[i]
            /\ (d /= NoCode /\ u /= NoId /\ ~ leader) => r.code = 403 /\ r.db = Db
            /\ (/\ leader
                /\ s \in DOMAIN subtasks
                /\ users[u].team_code /= tasks[subtasks[s].task_id].team_code
                /\ d \in {"2026-12-31", "2027-01-15"}) =>
                    r.code = 200 /\ r.db.subtasks[s].deadline = d

\* An updateDeadline was just answered 200 and a subtask of a task of the first
\* team has a deadline: the only leader among the callers is the second team's.
C37_Witness ==
    /\ last.op = "updateDeadline" /\ last.code = 200
    /\ \E s \in DOMAIN subtasks :
        /\ subtasks[s].deadline /= NoCode
        /\ tasks[subtasks[s].task_id].team_code = TakeTeam
        /\ subtasks[s].status = "taken"

(***************************************************************************)
(* Claims about concurrent registrations (checked under SpecReg).          *)
(***************************************************************************)
\* The registration of process p has committed its user row.
Registered(p) ==
    \/ req[p].pc = "rl_respond"
    \/ req[p].pc = "done" /\ req[p].code = 200

deleteTaskRefusal(taskId, userId) ==
    IF userId = NoId THEN 400
    ELSE IF taskId \notin DOMAIN tasks THEN 404
    ELSE IF userId \notin DOMAIN users THEN 403
    ELSE IF ~ isCreator(tasks[taskId], userId) /\ ~ isLeader(users[userId], tasks[taskId])
    THEN 403
    ELSE 0

\* The checks of DELETE /team/:teamCode/member/:memberId before pool.connect().
deleteTeamMemberRefusal(teamCode, memberId, leaderId) ==
    IF leaderId = NoId THEN 400
    ELSE IF ~ LeaderWhere(users, leaderId, teamCode) THEN 403
    ELSE IF memberId = leaderId THEN 400
    ELSE IF ~ MemberWhere(users, memberId, teamCode) THEN 404
    ELSE 0

\* The request arrives: an early return, or pool.connect().
DeleteArrive(p, r, refusal) ==
    /\ req[p].pc = "idle"
    /\ IF refusal /= 0
       THEN /\ req' = [req EXCEPT ![p] = Send([r EXCEPT !.pc = "done", !.code = refusal])]
            /\ last' = Response(r.op, refusal, "refused")
       ELSE /\ req' = [req EXCEPT ![p] = Connect([r EXCEPT !.pc = "d_begin"])]
            /\ last' = Response(r.op, 0, "")
    /\ UNCHANGED <<users, teams, tasks, subtasks, nextUserId, nextTaskId, nextSubtaskId,
                   lock, creating>>

DeleteTaskArrive(p, taskId, userId) ==
    /\ TRUE
    /\ DeleteArrive(p, [req[p] EXCEPT !.op = "deleteTask", !.taskId = taskId,
                                      !.userId = userId],
                    deleteTaskRefusal(taskId, userId))

DeleteMemberArrive(p, teamCode, memberId, leaderId) ==
    /\ TRUE
    /\ DeleteArrive(p, [req[p] EXCEPT !.op = "deleteTeamMember", !.teamCode = teamCode,
                                      !.userId = memberId],
                    deleteTeamMemberRefusal(teamCode, memberId, leaderId))

\* await client.query('BEGIN')
DeleteBegin(p) ==
    /\ req[p].pc = "d_begin"
    /\ req' = [req EXCEPT ![p] = BeginTxn([@ EXCEPT !.pc = "d_scan"])]
    /\ last' = Response(req[p].op, 0, "")
    /\ UNCHANGED <<users, teams, tasks, subtasks, nextUserId, nextTaskId, nextSubtaskId,
                   lock, creating>>

\* WHERE task_id = $1 (deleteTask), WHERE assigned_to = $2 (deleteTeamMember)
Matches(r, S, s) ==
    /\ s \in DOMAIN S
    /\ IF r.op = "deleteTask" THEN S[s].task_id = r.taskId
                              ELSE S[s].assigned_to = r.userId

\* The statement over the subtasks starts: the rows of its snapshot that match.
DeleteScan(p, desc) ==
    /\ req[p].pc = "d_scan"
    /\ LET found == {s \in DOMAIN subtasks : Matches(req[p], subtasks, s)}
       IN  req' = [req EXCEPT ![p].targets = found, ![p].desc = desc,
                              ![p].pc = IF found = {} THEN "d_parent" ELSE "d_rows"]
    /\ last' = Response(req[p].op, 0, "")
    /\ UNCHANGED <<users, teams, tasks, subtasks, nextUserId, nextTaskId, nextSubtaskId,
                   lock, creating>>

\* The row the statement meets next.
NextRow(r) ==
    IF r.desc THEN CHOOSE s \in r.targets : \A t \in r.targets : t <= s
              ELSE CHOOSE s \in r.targets : \A t \in r.targets : s <= t

\* The statement locks the next row once no other transaction holds it, and
\* changes it if its latest version still matches.
DeleteLockRow(p) ==
    /\ req[p].pc = "d_rows"
    /\ LET s == NextRow(req[p])
           rest == req[p].targets \ {s}
       IN  /\ lock[s] \in {0, p}
           /\ lock' = IF s \in DOMAIN subtasks THEN [lock EXCEPT ![s] = p] ELSE lock
           /\ req' = [req EXCEPT ![p].targets = rest,
                                 ![p].hit = IF Matches(req[p], subtasks, s)
                                            THEN @ \cup {s} ELSE @,
                                 ![p].pc = IF rest = {} THEN "d_parent" ELSE "d_rows"]
    /\ last' = Response(req[p].op, 0, "")
    /\ UNCHANGED <<users, teams, tasks, subtasks, nextUserId, nextTaskId, nextSubtaskId,
                   creating>>

\* Another request's transaction has run DELETE FROM tasks WHERE id = $1 for this
\* task and not yet committed.
TaskDeletePending(p, taskId) ==
    \E q \in Procs \ {p} :
        req[q].op = "deleteTask" /\ req[q].pc = "d_commit" /\ req[q].taskId = taskId

\* await client.query('DELETE FROM tasks WHERE id = $1', [taskId])
DeleteTaskParent(p) ==
    /\ req[p].pc = "d_parent" /\ req[p].op = "deleteTask"
    /\ ~ TaskDeletePending(p, req[p].taskId)
    /\ req' = [req EXCEPT ![p].pc = "d_commit"]
    /\ last' = Response("deleteTask", 0, "")
    /\ UNCHANGED <<users, teams, tasks, subtasks, nextUserId, nextTaskId, nextSubtaskId,
                   lock, creating>>

\* The subtasks once the rows of set hit are released to the pool:
\* SET assigned_to = NULL, status = 'available'
ReleaseRows(S, hit) ==
    [s \in DOMAIN S |->
        IF s \in hit THEN [S[s] EXCEPT !.assigned_to = NoId, !.status = "available"]
        ELSE S[s]]

\* await client.query('DELETE FROM users WHERE id = $1', [memberId]): it waits for
\* the transactions that reference the user, and throws when a committed row
\* still references the user.
DeleteMemberParent(p) ==
    /\ req[p].pc = "d_parent" /\ req[p].op = "deleteTeamMember"
    /\ ~ UserKeyShared(p, req[p].userId)
    /\ ~ UserDeletePending(p, req[p].userId)
    /\ IF /\ req[p].userId \in DOMAIN users
          /\ UserReferenced(users, teams, tasks, ReleaseRows(subtasks, req[p].hit),
                            req[p].userId)
       THEN req' = [req EXCEPT ![p].pc = "d_rollback", ![p].code = 500]
       ELSE req' = [req EXCEPT ![p].pc = "d_commit"]
    /\ last' = Response("deleteTeamMember", 0, "")
    /\ UNCHANGED <<users, teams, tasks, subtasks, nextUserId, nextTaskId, nextSubtaskId,
                   lock, creating>>

\* await client.query('COMMIT'); res.json({ message }); finally release.
DeleteCommit(p) ==
    /\ req[p].pc = "d_commit"
    /\ IF req[p].op = "deleteTask"
       THEN LET T1 == DeleteTaskRow(tasks, req[p].taskId)
                S1 == [s \in DOMAIN subtasks \ req[p].hit |-> subtasks[s]]
            IN  /\ tasks' = T1
                /\ subtasks' = OnDeleteCascade(S1, T1)
                /\ UNCHANGED users
       ELSE /\ subtasks' = ReleaseRows(subtasks, req[p].hit)
            /\ users' = DeleteUser(users, req[p].userId)
            /\ UNCHANGED tasks
    /\ lock' = Unlock(lock, p)
    /\ req' = [req EXCEPT ![p] = Release(Send(EndTxn([@ EXCEPT !.pc = "done",
                                                                !.code = 200])))]
    /\ last' = Response(req[p].op, 200, "")
    /\ UNCHANGED <<teams, nextUserId, nextTaskId, nextSubtaskId, creating>>

\* catch: await client.query('ROLLBACK'); throw error; the outer catch answers 500.
DeleteRollback(p) ==
    /\ req[p].pc = "d_rollback"
    /\ lock' = Unlock(lock, p)
    /\ req' = [req EXCEPT ![p] = Release(Send(EndTxn([@ EXCEPT !.pc = "done",
                                                                !.code = 500])))]
    /\ last' = Response(req[p].op, 500, "Internal server error")
    /\ UNCHANGED <<users, teams, tasks, subtasks, nextUserId, nextTaskId, nextSubtaskId,
                   creating>>

\* The requests whose transactions hold what the statement of request p waits for.
WaitsFor(p) ==
    LET r == req[p]
    IN  IF r.pc = "select" /\ r.op = "takeSubtask"
        THEN IF r.subtaskId \in DOMAIN lock THEN {lock[r.subtaskId]} \ {0, p} ELSE {}
        ELSE IF r.pc = "d_rows"
        THEN {lock[NextRow(r)]} \ {0, p}
        ELSE IF r.pc = "update" /\ r.op = "takeSubtask"
        THEN {q \in Procs \ {p} : req[q].op = "deleteTeamMember" /\ req[q].pc = "d_commit"
                                   /\ req[q].userId = r.userId}
        ELSE IF r.pc = "d_parent" /\ r.op = "deleteTask"
        THEN {q \in Procs \ {p} : req[q].op = "deleteTask" /\ req[q].pc = "d_commit"
                                   /\ req[q].taskId = r.taskId}
        ELSE IF r.pc = "d_parent"
        THEN {q \in Procs \ {p} :
                /\ req[q].userId = r.userId
                /\ \/ req[q].op = "deleteTeamMember" /\ req[q].pc = "d_commit"
                   \/ req[q].op = "takeSubtask" /\ req[q].pc = "commit"}
        ELSE {}

\* The requests that request p waits for, directly or through others, along
\* chains of at most n waits.
RECURSIVE Blockers(_, _)
Blockers(P, n) ==
    IF n = 0 THEN {}
    ELSE LET W == UNION {WaitsFor(q) : q \in P} IN W \cup Blockers(W, n - 1)

\* The deadlock detector: request p waits in a cycle, and its statement throws
\* ("deadlock detected"); the catch block runs.
DeadlockAbort(p) ==
    /\ p \in Blockers({p}, NumProcs)
    /\ req' = [req EXCEPT ![p].pc = IF req[p].op = "takeSubtask" THEN "rollback"
                                                                 ELSE "d_rollback",
                          ![p].code = 500, ![p].status = "deadlock"]
    /\ last' = Response(req[p].op, 0, "")
    /\ UNCHANGED <<users, teams, tasks, subtasks, nextUserId, nextTaskId, nextSubtaskId,
                   lock, creating>>

\* The subtasks of the one task that is created: both assigned to the member,
\* or the first one open.
LiveSubLists == {<<2, 2>>, <<NoId, 2>>}

LiveSubtaskIds == 1..2

InitLive ==
    /\ users = TakeUsers
    /\ teams = (TakeTeam :> TeamRow(1))
    /\ tasks = EmptyTable
    /\ subtasks = EmptyTable
    /\ nextUserId = 3
    /\ nextTaskId = 1
    /\ nextSubtaskId = 1
    /\ lock = [s \in LiveSubtaskIds |-> 0]
    /\ req = [p \in Procs |-> NoRequest]
    /\ creating = NoCreate
    /\ last = NoResponse

\* The steps that continue the createTask request.
CreateStep ==
    \/ CreateBegin
    \/ CreateInsertTask
    \/ CreateInsertSubtask
    \/ CreateCommit
    \/ CreateRead
    \/ CreateRollback

\* The steps that continue the request of process p.
RequestStep(p) ==
    \/ TakeBegin(p)
    \/ TakeSelect(p)
    \/ TakeUpdateStep(p)
    \/ TakeCommit(p)
    \/ TakeRollback(p)
    \/ TakeRead(p)
    \/ DeleteBegin(p)
    \/ \E d \in BOOLEAN : DeleteScan(p, d)
    \/ DeleteLockRow(p)
    \/ DeleteTaskParent(p)
    \/ DeleteMemberParent(p)
    \/ DeleteCommit(p)
    \/ DeleteRollback(p)
    \/ DeadlockAbort(p)

\* The leader creates one task; the processes claim its subtasks for the member,
\* delete the task and delete the member, each process one request.  Two
\* processes make any of these requests; the processes beyond them claim the
\* first subtask.
NextLive ==
    \/ \E l \in LiveSubLists : nextTaskId = 1 /\ CreateArrive(TakeTeam, 1, TRUE, l)
    \/ CreateStep
    \/ \E p \in Procs, s \in LiveSubtaskIds : (p <= 2 \/ s = 1) /\ TakeArrive(p, s, 2)
    \/ \E p \in Procs : p <= 2 /\ DeleteTaskArrive(p, 1, 1)
    \/ \E p \in Procs : p <= 2 /\ DeleteMemberArrive(p, TakeTeam, 2, 1)
    \/ \E p \in Procs : RequestStep(p)

\* Node runs the continuation of every request whose awaited query has
\* returned, and Postgres returns every query that waits for nothing; a
\* request need not arrive.
Fairness ==
    /\ WF_vars(CreateStep)
    /\ \A p \in Procs : WF_vars(RequestStep(p))

SpecLive == InitLive /\ [][NextLive]_vars /\ Fairness

(***************************************************************************)
(* Claims about connections (checked under SpecFault).                     *)
(***************************************************************************)
\* What C39 says of the connection and transaction counters of one request.
Released(r) ==
    /\ r.conn \in {0, 1} /\ r.releases \in {0, 1}
    /\ r.conn + r.releases <= 1
    /\ r.txn => r.conn = 1
    /\ r.pc = "done" => r.conn = 0 /\ ~ r.txn
    /\ (r.pc = "done" /\ r.code /= 400) => r.releases = 1
    /\ (r.pc \notin {"idle", "done"}) => r.conn = 1 /\ r.releases = 0

OneResponse(r) == r.responses = (IF r.pc = "done" THEN 1 ELSE 0)

\* Every request that has arrived is answered.
AllAnswered ==
    /\ creating.pc \in {"idle", "done"}
    /\ \A p \in Procs : req[p].pc \in {"idle", "done"}

\* C38: in every behaviour of concurrent createTask, takeSubtask, deleteTask and
\* deleteTeamMember requests in which every request that can continue does, no
\* request has ever sent more than one response, and every request that has
\* arrived is eventually answered: none waits forever for a row lock.  (Each
\* process makes at most one request and an answered request stays answered, so
\* "each arrived request is eventually answered" is "from some point on all
\* arrived requests are answered".)
C38_EveryRequestAnsweredOnce ==
    /\ [](OneResponse(creating) /\ \A p \in Procs : OneResponse(req[p]))
    /\ <>[]AllAnswered

\* A deleteTask and a deleteTeamMember locked the two subtasks in opposite
\* orders and waited for each other; one was made to throw and answered 500, the
\* other committed and answered 200.
C38_Witness ==
    \E p \in Procs, q \in Procs :
        /\ req[p].pc = "done" /\ req[p].status = "deadlock" /\ req[p].code = 500
        /\ req[p].responses = 1
        /\ req[q].pc = "done" /\ req[q].code = 200 /\ req[q].responses = 1
        /\ {req[p].op, req[q].op} = {"deleteTask", "deleteTeamMember"}

====
